---- MODULE Spec2Model ----
(***************************************************************************)
(* make_gtfs: building a GTFS feed (routes, shapes, trips, stop times)     *)
(* from a ProtoFeed.  Tables are sequences of records, identifiers and     *)
(* time strings are sequences of one-character strings, and seconds are    *)
(* exact rationals <<numerator, denominator>>.                             *)
(***************************************************************************)
EXTENDS Integers, Sequences, FiniteSets, TLC

VARIABLES
    frequencies,    \* pfeed.frequencies after ProtoFeed.__post_init__
    speed_zones,    \* pfeed.speed_zones after ProtoFeed.__post_init__
    buffer,         \* the buffer argument of build_feed
    pc,             \* position in build_feed
    routes,         \* table returned by build_routes
    shapes,         \* table returned by build_shapes
    stops,          \* table returned by build_stops
    trips,          \* table returned by build_trips
    quicksort_ties, \* what quicksort does with rows of equal keys
    groups,         \* build_stop_times: the groups of trips.groupby
    groups_done,    \* build_stop_times: number of groups done
    frames,         \* build_stop_times: the frames built so far
    cache,          \* the lru_cache of _build_stop_times_for_trip
    computed,       \* the keys build_stop_times_for_trip ran for, uncached
    hits,           \* the calls the lru_cache answered from its entries
    stop_times,     \* table returned by build_stop_times
    call,           \* arguments of a direct call of build_stop_times_for_trip
    returned,       \* what the direct call returned
    feed,           \* the legacy Feed object: its input and its attributes
    files           \* the files that Feed.export has written

vars == <<frequencies, speed_zones, buffer, pc, routes, shapes, stops, trips,
          quicksort_ties, groups, groups_done, frames, cache, computed, hits,
          stop_times, call, returned, feed, files>>

pfeed == <<frequencies, speed_zones, buffer, quicksort_ties, call, returned>>

(***************************************************************************)
(* Bounds of the model.                                                    *)
(***************************************************************************)
MaxFrequency == 2       \* frequencies are drawn from 0..MaxFrequency
MaxRows == 2            \* rows of the frequencies table
MaxStops == 3           \* candidate stops of a direct call
MaxCalls == 3           \* calls of the cached function in a row
MaxHours == 25          \* hours of the numbers of seconds converted

(***************************************************************************)
(* Strings.                                                                *)
(***************************************************************************)
SEP == "-"

Digits == <<"0", "1", "2", "3", "4", "5", "6", "7", "8", "9">>

IsDigit(c) == \E i \in 1..10 : Digits[i] = c

DigitVal(c) == (CHOOSE i \in 1..10 : Digits[i] = c) - 1

\* Python str(n) for n >= 0
RECURSIVE str(_)
str(n) == IF n < 10 THEN <<Digits[n + 1]>>
          ELSE str(n \div 10) \o <<Digits[(n % 10) + 1]>>

\* Python int(s) succeeds on a non-empty string of decimal digits
IsInt(s) == Len(s) > 0 /\ \A i \in 1..Len(s) : IsDigit(s[i])

RECURSIVE int(_)
int(s) == IF Len(s) = 1 THEN DigitVal(s[1])
          ELSE 10 * int(SubSeq(s, 1, Len(s) - 1)) + DigitVal(s[Len(s)])

\* Python sep.join(parts)
RECURSIVE join(_, _)
join(sep, parts) ==
    IF parts = <<>> THEN <<>>
    ELSE IF Len(parts) = 1 THEN parts[1]
    ELSE parts[1] \o <<sep>> \o join(sep, Tail(parts))

\* Python s.split(sep): k separators give k + 1 fields
RECURSIVE split_from(_, _, _, _)
split_from(s, sep, i, field) ==
    IF i > Len(s) THEN <<field>>
    ELSE IF s[i] = sep THEN <<field>> \o split_from(s, sep, i + 1, <<>>)
    ELSE split_from(s, sep, i + 1, Append(field, s[i]))

split(s, sep) == split_from(s, sep, 1, <<>>)

\* '{:d}'.format(n), without the padding
Fmt02_unpadded(n) == IF n < 0 THEN <<"-">> \o str(-n) ELSE str(n)

\* '{:02d}'.format(n): the sign counts in the width
Fmt02(n) == IF n < 0 THEN <<"-">> \o str(-n)
            ELSE IF n < 10 THEN <<"0">> \o str(n) ELSE str(n)

(***************************************************************************)
(* Exact rationals <<n, d>> with d > 0, kept in lowest terms.              *)
(***************************************************************************)
Abs(x) == IF x < 0 THEN -x ELSE x

RECURSIVE GCD(_, _)
GCD(a, b) == IF b = 0 THEN a ELSE GCD(b, a % b)

Rat(n, d) == LET g == GCD(Abs(n), d) IN <<n \div g, d \div g>>

RInt(n) == <<n, 1>>
RAdd(a, b) == Rat(a[1] * b[2] + b[1] * a[2], a[2] * b[2])
RSub(a, b) == Rat(a[1] * b[2] - b[1] * a[2], a[2] * b[2])
RMul(a, b) == LET g1 == GCD(Abs(a[1]), b[2])
                  g2 == GCD(Abs(b[1]), a[2])
              IN  Rat((a[1] \div g1) * (b[1] \div g2), (a[2] \div g2) * (b[2] \div g1))
RDiv(a, b) == IF b[1] < 0 THEN RMul(a, <<-b[2], -b[1]>>)
              ELSE RMul(a, <<b[2], b[1]>>)       \* b # 0
RLe(a, b) == a[1] * b[2] <= b[1] * a[2]
RLt(a, b) == a[1] * b[2] < b[1] * a[2]
\* Python int(x) for x >= 0
RTrunc(a) == a[1] \div a[2]

(***************************************************************************)
(* Time strings.                                                           *)
(***************************************************************************)
NaN == -1

timestr_to_seconds(x) ==
    LET parts == split(x, ":")
    IN  IF Len(parts) = 3 /\ \A i \in 1..3 : IsInt(parts[i])
        THEN int(parts[1]) * 3600 + int(parts[2]) * 60 + int(parts[3])
        ELSE NaN

\* timestr_to_seconds(x, inverse=True) for a number of seconds x >= 0
seconds_to_timestr(x) ==
    LET seconds == RTrunc(x)
        hours == seconds \div 3600
        remainder == seconds % 3600
    IN  Fmt02(hours) \o <<":">> \o Fmt02(remainder \div 60) \o <<":">>
            \o Fmt02(remainder % 60)

\* get_duration(timestr1, timestr2, units)
get_duration(timestr1, timestr2, units) ==
    LET duration == timestr_to_seconds(timestr2) - timestr_to_seconds(timestr1)
    IN  IF units = "s" THEN RInt(duration)
        ELSE IF units = "min" THEN Rat(duration, 60)
        ELSE Rat(duration, 3600)

\* Python values: a string, an int, a float (a rational) or None
PyStr(s) == [type |-> "str", value |-> s]
PyInt(n) == [type |-> "int", value |-> n]
PyFloat(r) == [type |-> "float", value |-> r]
None == [type |-> "None", value |-> <<>>]

\* s.strip() of the blanks around a string
RECURSIVE strip(_)
strip(s) ==
    IF s = <<>> THEN s
    ELSE IF Head(s) = " " THEN strip(Tail(s))
    ELSE IF s[Len(s)] = " " THEN strip(SubSeq(s, 1, Len(s) - 1))
    ELSE s

\* the digits of an integer literal, after the blanks and the sign
literal_digits(s) ==
    IF strip(s) # <<>> /\ Head(strip(s)) \in {"+", "-"} THEN Tail(strip(s))
    ELSE strip(s)

\* int(x) of numbers only: a string is refused
py_int_of_numbers(x) ==
    IF x.type = "int" THEN [ok |-> TRUE, value |-> x.value]
    ELSE [ok |-> FALSE, value |-> 0]

\* int(x): [ok, value], ok = FALSE when int raises.  A float is truncated
\* toward zero, a string is read as a decimal literal with an optional sign
\* and blanks around it.
py_int(x) ==
    IF x.type = "int" THEN [ok |-> TRUE, value |-> x.value]
    ELSE IF x.type = "float"
    THEN IF x.value[2] = 0 THEN [ok |-> FALSE, value |-> 0]
         ELSE IF x.value[1] >= 0
         THEN [ok |-> TRUE, value |-> x.value[1] \div x.value[2]]
         ELSE [ok |-> TRUE, value |-> -((-x.value[1]) \div x.value[2])]
    ELSE IF x.type = "str"
    THEN IF ~IsInt(literal_digits(x.value)) THEN [ok |-> FALSE, value |-> 0]
         ELSE IF Head(strip(x.value)) = "-"
         THEN [ok |-> TRUE, value |-> -int(literal_digits(x.value))]
         ELSE [ok |-> TRUE, value |-> int(literal_digits(x.value))]
    ELSE [ok |-> FALSE, value |-> 0]

\* hours, mins, seconds = x.split(':') and the sum of the fields in seconds,
\* None when a statement raises
parse_timestr(x, mod24) ==
    IF x.type # "str" THEN None
    ELSE IF Len(split(x.value, ":")) # 3 THEN None
    ELSE IF \E i \in 1..3 : ~py_int(PyStr(split(x.value, ":")[i])).ok THEN None
    ELSE IF mod24
    THEN PyInt((py_int(PyStr(split(x.value, ":")[1])).value * 3600
                + py_int(PyStr(split(x.value, ":")[2])).value * 60
                + py_int(PyStr(split(x.value, ":")[3])).value) % (24 * 3600))
    ELSE PyInt(py_int(PyStr(split(x.value, ":")[1])).value * 3600
               + py_int(PyStr(split(x.value, ":")[2])).value * 60
               + py_int(PyStr(split(x.value, ":")[3])).value)

\* '{:02d}:{:02d}:{:02d}'.format(hours, mins, secs) from the divmods
format_hms(seconds) ==
    Fmt02(seconds \div 3600) \o <<":">> \o Fmt02((seconds % 3600) \div 60)
        \o <<":">> \o Fmt02((seconds % 3600) % 60)

\* seconds = int(x) and the time string of the seconds, None when a
\* statement raises
format_seconds(x, mod24) ==
    IF ~py_int(x).ok THEN None
    ELSE IF mod24 THEN PyStr(format_hms(py_int(x).value % (24 * 3600)))
    ELSE PyStr(format_hms(py_int(x).value))

\* make_gtfs.timestr_to_seconds(x, inverse=False, mod24=False)
make_gtfs_timestr_to_seconds(x, inverse, mod24) ==
    IF ~inverse THEN parse_timestr(x, mod24) ELSE format_seconds(x, mod24)

\* feed.seconds_to_timestr(seconds, inverse=False)
feed_seconds_to_timestr(seconds, inverse) ==
    IF ~inverse THEN format_seconds(seconds, FALSE)
    ELSE parse_timestr(seconds, FALSE)

(***************************************************************************)
(* Table helpers (pandas).                                                 *)
(***************************************************************************)
RECURSIVE Concat(_)
Concat(ss) == IF ss = <<>> THEN <<>> ELSE Head(ss) \o Concat(Tail(ss))

Map(s, F(_)) == [i \in 1..Len(s) |-> F(s[i])]

Range(s) == {s[i] : i \in 1..Len(s)}

\* DataFrame.drop_duplicates(): the first occurrence of every row is kept
drop_duplicates(s) ==
    LET keep(i) == \A j \in 1..(i - 1) : s[j] # s[i]
        RECURSIVE go(_)
        go(i) == IF i > Len(s) THEN <<>>
                 ELSE (IF keep(i) THEN <<s[i]>> ELSE <<>>) \o go(i + 1)
    IN  go(1)

\* left.merge(right): inner join in the order of the left rows, each left
\* row paired with the matching right rows in their order
merge(left, right, Match(_, _), Pair(_, _)) ==
    LET rowsFor(l) == LET m == SelectSeq(right, LAMBDA r : Match(l, r))
                      IN  [i \in 1..Len(m) |-> Pair(l, m[i])]
    IN  Concat([i \in 1..Len(left) |-> rowsFor(left[i])])

(***************************************************************************)
(* The ProtoFeed.                                                          *)
(***************************************************************************)
ROUTE_NAMES == << <<"1">>, <<"2">> >>
WINDOW_IDS == << <<"w", "1">>, <<"w", "2">> >>
SHAPE_IDS == << <<"A">>, <<"B">> >>

\* the route type of every route of the model: route 1 is a bus, route 2 rail
RouteType(name) == IF name = <<"1">> THEN 3 ELSE 2

\* Default average speeds by route type in kilometers per hour
SPEED_BY_RTYPE == [t \in {0, 1, 2, 3, 4, 5, 6, 7, 11, 12} |->
    CASE t = 0 -> 11 [] t = 1 -> 30 [] t = 2 -> 45 [] t = 3 -> 22
      [] t = 4 -> 22 [] t = 5 -> 13 [] t = 6 -> 20 [] t = 7 -> 18
      [] t = 11 -> 22 [] t = 12 -> 65]

T0600 == <<"0", "6", ":", "0", "0", ":", "0", "0">>
T0700 == <<"0", "7", ":", "0", "0", ":", "0", "0">>
T0830 == <<"0", "8", ":", "3", "0", ":", "0", "0">>
T0900 == <<"0", "9", ":", "0", "0", ":", "0", "0">>

\* pfeed.service_windows: a one hour window and a one and a half hour window
service_windows == <<
    [service_window_id |-> WINDOW_IDS[1], start_time |-> T0600,
     end_time |-> T0700, days |-> <<1, 1, 1, 1, 1, 0, 0>>],
    [service_window_id |-> WINDOW_IDS[2], start_time |-> T0700,
     end_time |-> T0830, days |-> <<0, 0, 0, 0, 0, 1, 1>>] >>

\* pfeed.shapes: two straight west-east linestrings, in metres
pfeed_shapes == <<
    [shape_id |-> SHAPE_IDS[1], geometry |-> << <<0, 0>>, <<50, 0>>, <<100, 0>> >>],
    [shape_id |-> SHAPE_IDS[2], geometry |-> << <<0, 500>>, <<100, 500>> >>] >>

\* A row of frequencies.csv, with its speed filled by ProtoFeed.__post_init__
FreqRow(name, window, direction, frequency, shape) ==
    [route_short_name |-> name,
     route_long_name |-> <<"R">> \o name,
     route_type |-> RouteType(name),
     service_window_id |-> window,
     direction |-> direction,
     frequency |-> frequency,
     shape_id |-> shape,
     speed |-> SPEED_BY_RTYPE[RouteType(name)]]

\* The rows the model draws from, as <<route, window, direction, shape>>:
\* route 1 with either window, either shape and every direction, route 2
\* with shape B
FreqPatterns == <<
    <<1, 1, 0, 1>>, <<1, 1, 1, 1>>, <<1, 1, 2, 1>>, <<1, 2, 2, 1>>,
    <<1, 1, 0, 2>>, <<1, 2, 1, 2>>, <<2, 1, 0, 2>>, <<2, 1, 2, 2>> >>

\* the rows are numbered 0..NumFreqRows-1
NumFreqRows == Len(FreqPatterns) * (MaxFrequency + 1)

FreqRowOf(c) ==
    LET p == FreqPatterns[(c \div (MaxFrequency + 1)) + 1]
    IN  FreqRow(ROUTE_NAMES[p[1]], WINDOW_IDS[p[2]], p[3],
                c % (MaxFrequency + 1), SHAPE_IDS[p[4]])

\* frequency tables of 1..MaxRows distinct rows
RECURSIVE CodeSeqs(_, _)
CodeSeqs(n, lo) ==
    IF n = 0 THEN {<<>>}
    ELSE UNION {{<<c>> \o t : t \in CodeSeqs(n - 1, c + 1)} :
                c \in lo..(NumFreqRows - 1)}

FreqTables ==
    UNION {{[i \in 1..n |-> FreqRowOf(cs[i])] : cs \in CodeSeqs(n, 0)} :
           n \in 1..MaxRows}

(***************************************************************************)
(* build_routes                                                            *)
(***************************************************************************)
build_routes(freqs) ==
    LET f == drop_duplicates(Map(freqs, LAMBDA r :
                 [route_short_name |-> r.route_short_name,
                  route_long_name |-> r.route_long_name,
                  route_type |-> r.route_type,
                  shape_id |-> r.shape_id]))
    IN  Map(f, LAMBDA r :
            [route_short_name |-> r.route_short_name,
             route_long_name |-> r.route_long_name,
             route_type |-> r.route_type,
             route_id |-> <<"r">> \o r.route_short_name])

(***************************************************************************)
(* build_calendar_etc: the service ID of every service window              *)
(***************************************************************************)
get_sid(bitlist) == <<"s", "r", "v">> \o Concat(Map(bitlist, str))

service_by_window(window) ==
    LET w == CHOOSE w \in Range(service_windows) : w.service_window_id = window
    IN  get_sid(w.days)

(***************************************************************************)
(* ProtoFeed.shapes_extra and build_shapes                                 *)
(***************************************************************************)
\* the direction of the first row that uses the shape
shapes_extra_of_first_row(freqs) ==
    [shape \in {r.shape_id : r \in Range(freqs)} |->
        freqs[CHOOSE i \in 1..Len(freqs) :
                 /\ freqs[i].shape_id = shape
                 /\ \A j \in 1..(i - 1) : freqs[j].shape_id # shape].direction]

\* <shape ID> -> <trip directions using the shape (0, 1, or 2)>
shapes_extra(freqs) ==
    [shape \in {r.shape_id : r \in Range(freqs)} |->
        LET dirs == {r.direction : r \in {q \in Range(freqs) : q.shape_id = shape}}
        IN  IF Cardinality(dirs) > 1 \/ 2 \in dirs THEN 2
            ELSE CHOOSE d \in dirs : TRUE]

Reverse(s) == [i \in 1..Len(s) |-> s[Len(s) + 1 - i]]

\* The shapes table, one row per shape ID with its points in sequence order
build_shapes(freqs) ==
    LET extra == shapes_extra(freqs)
        rowsFor(s) ==
            IF s.shape_id \notin DOMAIN extra THEN <<>>
            ELSE IF extra[s.shape_id] = 2
            THEN << [shape_id |-> s.shape_id \o <<"-", "1">>,
                     geometry |-> s.geometry],
                    [shape_id |-> s.shape_id \o <<"-", "0">>,
                     geometry |-> Reverse(s.geometry)] >>
            ELSE << [shape_id |-> s.shape_id \o <<SEP>> \o str(extra[s.shape_id]),
                     geometry |-> s.geometry] >>
    IN  Concat(Map(pfeed_shapes, rowsFor))

(***************************************************************************)
(* build_trips                                                             *)
(***************************************************************************)
\* int(frequency * duration)
num_trips_per_direction(frequency, start, end) ==
    RTrunc(RMul(RInt(frequency), get_duration(start, end, "h")))

\* the ID with the index before the direction
trip_id_of_swapped(route, window, start, direction, i) ==
    join(SEP, << <<"t">>, route, window, start, str(i), str(direction) >>)

trip_id_of(route, window, start, direction, i) ==
    join(SEP, << <<"t">>, route, window, start, str(direction), str(i) >>)

build_trips(freqs, rts) ==
    LET merged ==
            merge(merge(rts, freqs,
                        LAMBDA l, r : l.route_short_name = r.route_short_name,
                        LAMBDA l, r : [route_id |-> l.route_id, freq |-> r]),
                  service_windows,
                  LAMBDA l, w : l.freq.service_window_id = w.service_window_id,
                  LAMBDA l, w : [route_id |-> l.route_id, freq |-> l.freq,
                                 start_time |-> w.start_time,
                                 end_time |-> w.end_time])
        tripsFor(row) ==
            LET n == num_trips_per_direction(row.freq.frequency,
                                             row.start_time, row.end_time)
                directions == IF row.freq.direction = 2 THEN <<0, 1>>
                              ELSE <<row.freq.direction>>
                group(direction) ==
                    [k \in 1..n |->
                        [route_id |-> row.route_id,
                         trip_id |-> trip_id_of(row.route_id,
                                        row.freq.service_window_id,
                                        row.start_time, direction, k - 1),
                         direction_id |-> direction,
                         shape_id |-> row.freq.shape_id \o <<SEP>> \o str(direction),
                         service_id |-> service_by_window(row.freq.service_window_id)]]
            IN  IF row.freq.frequency = 0 THEN <<>>
                ELSE Concat(Map(directions, group))
    IN  Concat(Map(merged, tripsFor))

(***************************************************************************)
(* Geometry.  Every linestring of the model is a straight west-east or     *)
(* east-west line, points are <<x, y>> in metres, and a speed zone is a    *)
(* north-south strip xlo <= x <= xhi of the service area.                  *)
(***************************************************************************)
BUFFER == 10

\* np.inf, as a rational
Inf == <<1, 0>>

X(p) == p[1]
Y(p) == p[2]

\* linestring.project(point): distance along the line of the nearest point
project(linestring, point) ==
    LET x0 == X(linestring[1])
        x1 == X(linestring[Len(linestring)])
        lo == IF x0 <= x1 THEN x0 ELSE x1
        hi == IF x0 <= x1 THEN x1 ELSE x0
        x == IF X(point) < lo THEN lo ELSE IF X(point) > hi THEN hi ELSE X(point)
    IN  Abs(x - x0)

\* point.intersects(buffer_side(linestring, side, buffer)), the coordinates
\* and the buffer counted in steps of 1/grid of the distance unit. For the
\* sides "left" and "right" the flat-capped buffer is cut along the path by
\* a strip of half-width eps = min(buffer / 2, 0.001) and the half on the
\* side is buffered again, with round corners, by 1.1 * eps; eps2 is
\* 2 * s * eps, and dx2 and dy2 are 2 * s times the distance to that half.
in_buffer_side(linestring, side, buf, point, grid) ==
    LET x0 == X(linestring[1])
        x1 == X(linestring[Len(linestring)])
        lo == IF x0 <= x1 THEN x0 ELSE x1
        hi == IF x0 <= x1 THEN x1 ELSE x0
        \* offset to the left of the direction of travel
        left == IF x0 <= x1 THEN Y(point) - Y(linestring[1])
                ELSE Y(linestring[1]) - Y(point)
        off == IF side = "left" THEN left ELSE -left
        s == 1000 \div GCD(grid, 1000)
        eps_max2 == (2 * s * grid) \div 1000
        eps2 == IF s * buf < eps_max2 THEN s * buf ELSE eps_max2
        dx == IF X(point) < lo THEN lo - X(point)
              ELSE IF X(point) > hi THEN X(point) - hi ELSE 0
        dy2 == IF 2 * s * off < eps2 THEN eps2 - 2 * s * off
               ELSE IF off > buf THEN 2 * s * (off - buf) ELSE 0
    IN  IF buf <= 0 THEN FALSE
        ELSE IF side \in {"left", "right"}
        THEN /\ 20 * s * dx <= 11 * eps2
             /\ 10 * dy2 <= 11 * eps2
             /\ 100 * (2 * s * dx * 2 * s * dx + dy2 * dy2)
                    <= 11 * eps2 * 11 * eps2
        ELSE /\ lo <= X(point) /\ X(point) <= hi
             /\ Abs(left) <= buf

get_stops_nearby(geo_stops, linestring, side, buf, grid) ==
    SelectSeq(geo_stops,
        LAMBDA s : in_buffer_side(linestring, side, buf, s.geometry, grid))

\* Traffic side by timezone
TRAFFIC_BY_TIMEZONE ==
    [tz \in {"Pacific/Auckland", "Europe/Paris"} |->
        IF tz = "Pacific/Auckland" THEN "left" ELSE "right"]

agency_timezone == "Pacific/Auckland"

\* pfeed.stops: two stops on each side of shape A, one stop south of shape B
pfeed_stops == <<
    [stop_id |-> <<"a", "1">>, geometry |-> <<0, 5>>],
    [stop_id |-> <<"a", "2">>, geometry |-> <<100, 5>>],
    [stop_id |-> <<"a", "3">>, geometry |-> <<100, -5>>],
    [stop_id |-> <<"a", "4">>, geometry |-> <<0, -5>>],
    [stop_id |-> <<"b", "1">>, geometry |-> <<50, 495>>] >>

build_stops == pfeed_stops

\* geometry.intersects(zone)
in_zone(zone, point) == zone.xlo <= X(point) /\ X(point) <= zone.xhi

\* left.sjoin(zones): one row for every zone a point intersects
sjoin(left, zones, Pair(_, _)) ==
    merge(left, zones, LAMBDA l, z : in_zone(z, l.geometry), Pair)

(***************************************************************************)
(* Sorting.  sort_values uses quicksort, which is not stable: rows with    *)
(* equal keys keep their order or not, depending on the build.             *)
(***************************************************************************)
\* stable: a row goes before the rows already placed that are not smaller
stable_sort(rows, Le(_, _)) ==
    LET RECURSIVE ins(_, _)
        ins(row, sorted) ==
            IF sorted = <<>> THEN <<row>>
            ELSE IF Le(row, Head(sorted)) THEN <<row>> \o sorted
            ELSE <<Head(sorted)>> \o ins(row, Tail(sorted))
        RECURSIVE go(_)
        go(rest) == IF rest = <<>> THEN <<>>
                    ELSE ins(Head(rest), go(Tail(rest)))
    IN  go(rows)

sort_values(rows, Le(_, _), ties) ==
    IF ties = "kept" THEN stable_sort(rows, Le)
    ELSE stable_sort(Reverse(rows), Le)

(***************************************************************************)
(* compute_shape_point_speeds                                              *)
(***************************************************************************)
\* lexicographic order of strings over the characters of the model
CharOrder == <<"-", "0", "1", "2", "3", "A", "B">>
CharRank(c) == CHOOSE i \in 1..Len(CharOrder) : CharOrder[i] = c

RECURSIVE StrLe(_, _)
StrLe(a, b) ==
    IF a = <<>> THEN TRUE
    ELSE IF b = <<>> THEN FALSE
    ELSE IF Head(a) = Head(b) THEN StrLe(Tail(a), Tail(b))
    ELSE CharRank(Head(a)) < CharRank(Head(b))

\* cumulative distance of every vertex of a linestring
shape_dist_traveled(linestring) ==
    [i \in 1..Len(linestring) |-> Abs(X(linestring[i]) - X(linestring[1]))]

\* points where a linestring crosses the boundary of a zone
boundary_points(linestring, zones) ==
    LET x0 == X(linestring[1])
        x1 == X(linestring[Len(linestring)])
        lo == IF x0 <= x1 THEN x0 ELSE x1
        hi == IF x0 <= x1 THEN x1 ELSE x0
        xs == {x \in UNION {{z.xlo, z.xhi} : z \in Range(zones)} : lo <= x /\ x <= hi}
        RECURSIVE ordered(_)
        ordered(S) == IF S = {} THEN <<>>
                      ELSE LET m == CHOOSE x \in S : \A y \in S : x <= y
                           IN  <<m>> \o ordered(S \ {m})
    IN  Map(ordered(xs), LAMBDA x : <<x, Y(linestring[1])>>)

\* The profile: [columns |-> FALSE] is the empty GeoDataFrame() returned
\* when there are no speed zones for the route type
compute_shape_point_speeds(shps, zones_all, route_type) ==
    LET zones == SelectSeq(zones_all, LAMBDA z : z.route_type = route_type)
        shape_points(s) ==
            LET d == shape_dist_traveled(s.geometry)
            IN  [i \in 1..Len(s.geometry) |->
                    [shape_id |-> s.shape_id, shape_pt_sequence |-> i - 1,
                     shape_dist_traveled |-> d[i], geometry |-> s.geometry[i]]]
        boundary(s) ==
            Map(boundary_points(s.geometry, zones), LAMBDA p :
                    [shape_id |-> s.shape_id, shape_pt_sequence |-> -1,
                     shape_dist_traveled |-> project(s.geometry, p),
                     geometry |-> p])
        points == Concat(Map(shps, shape_points)) \o Concat(Map(shps, boundary))
        joined == sjoin(points, zones, LAMBDA l, z :
                    [shape_id |-> l.shape_id,
                     shape_pt_sequence |-> l.shape_pt_sequence,
                     shape_dist_traveled |-> l.shape_dist_traveled,
                     route_type |-> z.route_type,
                     speed_zone_id |-> z.speed_zone_id,
                     speed |-> z.speed])
        Le(a, b) ==
            IF a.shape_id # b.shape_id THEN StrLe(a.shape_id, b.shape_id)
            ELSE IF a.shape_dist_traveled # b.shape_dist_traveled
                 THEN a.shape_dist_traveled < b.shape_dist_traveled
            ELSE a.shape_pt_sequence <= b.shape_pt_sequence
    IN  IF zones = <<>> THEN [columns |-> FALSE, rows |-> <<>>]
        ELSE [columns |-> TRUE, rows |-> stable_sort(joined, Le)]

(***************************************************************************)
(* build_stop_times_for_trip                                               *)
(***************************************************************************)
\* 0/0 of floating point arithmetic
NaNR == <<0, 0>>

\* floating point division a / b for a, b >= 0
fdiv(a, b) ==
    IF b[1] = 0 THEN (IF a[1] = 0 THEN NaNR ELSE Inf) ELSE RDiv(a, b)

fillna(x, value) == IF x = NaNR THEN value ELSE x

\* floating point addition a + b for a, b >= 0
fadd(a, b) ==
    IF a = NaNR \/ b = NaNR THEN NaNR
    ELSE IF a = Inf \/ b = Inf THEN Inf
    ELSE RAdd(a, b)

\* k = 1000 / 3600, kilometers per hour to meters per second
k == Rat(1000, 3600)

\* the speed left in kilometers per hour
to_mps_unconverted(speed) == speed

to_mps(speed) == IF speed = Inf THEN Inf ELSE RMul(speed, k)

\* running sums: cumsum(s)[i] = s[1] + ... + s[i]
RECURSIVE sum_to(_, _)
sum_to(s, i) == IF i = 1 THEN s[1] ELSE fadd(sum_to(s, i - 1), s[i])

cumsum(s) == [i \in 1..Len(s) |-> sum_to(s, i)]

NoStop == <<>>

\* sps: the profile rows of the shape, speeds in meters per second
sps_of(shape_point_speeds, shape_id) ==
    Map(SelectSeq(shape_point_speeds.rows, LAMBDA r : r.shape_id = shape_id),
        LAMBDA r : [stop_id |-> NoStop,
                    shape_dist_traveled |-> r.shape_dist_traveled,
                    speed |-> to_mps(r.speed)])

\* sorting by distance, descending
by_dist_descending(a, b) == a.shape_dist_traveled >= b.shape_dist_traveled

by_dist(a, b) == a.shape_dist_traveled <= b.shape_dist_traveled

\* f: the stops with their distance along the linestring and the speed of
\* every zone of the route type they lie in, sorted by distance
f_of(stops_g_nearby, linestring, zones_all, route_type, ties) ==
    sort_values(
        sjoin(stops_g_nearby,
              SelectSeq(zones_all, LAMBDA z : z.route_type = route_type),
              LAMBDA l, z :
                  [stop_id |-> l.stop_id,
                   shape_dist_traveled |-> project(linestring, l.geometry),
                   speed |-> to_mps(z.speed)]),
        by_dist, ties)

\* shape_dist_traveled.diff().shift(-1).fillna(0) at row i
dist_to_next(rows, i) ==
    IF i < Len(rows)
    THEN rows[i + 1].shape_dist_traveled - rows[i].shape_dist_traveled
    ELSE 0

\* the default speed left in kilometers per hour
replace_inf_unconverted(speed, default_speed) ==
    IF speed = Inf THEN default_speed ELSE speed

\* default_speed *= k, and speed.replace({np.inf: default_speed})
replace_inf(speed, default_speed) ==
    IF speed = Inf THEN RMul(default_speed, k) ELSE speed

\* the weight of a segment taken from the speed at its end
assign_weight_to_next_by_end_speed(sorted, default_speed) ==
    [i \in 1..Len(sorted) |->
        [stop_id |-> sorted[i].stop_id,
         shape_dist_traveled |-> sorted[i].shape_dist_traveled,
         weight_to_next |->
            RMul(RInt(dist_to_next(sorted, i)),
                 replace_inf(sorted[IF i < Len(sorted) THEN i + 1 ELSE i].speed,
                             default_speed))]]

\* speed with inf replaced, dist_to_next and weight_to_next of every point
assign_weight_to_next(sorted, default_speed) ==
    [i \in 1..Len(sorted) |->
        [stop_id |-> sorted[i].stop_id,
         shape_dist_traveled |-> sorted[i].shape_dist_traveled,
         weight_to_next |->
            RMul(RInt(dist_to_next(sorted, i)),
                 replace_inf(sorted[i].speed, default_speed))]]

\* s.cumsum().shift(1).fillna(0), also s.shift(1).cumsum().fillna(0)
shift_cumsum(s) ==
    [i \in 1..Len(s) |-> IF i = 1 THEN RInt(0) ELSE sum_to(s, i - 1)]

assign_shape_weight_traveled(points, traveled) ==
    [i \in 1..Len(points) |->
        [stop_id |-> points[i].stop_id,
         shape_dist_traveled |-> points[i].shape_dist_traveled,
         shape_weight_traveled |-> traveled[i]]]

\* the points with their weight traveled, the shape points dropped
keep_stops(points) ==
    SelectSeq(
        assign_shape_weight_traveled(points,
            shift_cumsum(Map(points, LAMBDA r : r.weight_to_next))),
        LAMBDA r : r.stop_id # NoStop)

\* the quotient of the distance by the speed left as it is
duration_to_next_without_fillna(at_stops, i) ==
    LET weight_to_next ==
            IF i < Len(at_stops)
            THEN RSub(at_stops[i + 1].shape_weight_traveled,
                      at_stops[i].shape_weight_traveled)
            ELSE RInt(0)
        speed_to_next ==
            fillna(fdiv(weight_to_next, RInt(dist_to_next(at_stops, i))), RInt(0))
    IN  fdiv(RInt(dist_to_next(at_stops, i)), speed_to_next)

\* dist_to_next / speed_to_next at stop i, where speed_to_next is
\* weight_to_next / dist_to_next
duration_to_next(at_stops, i) ==
    LET weight_to_next ==
            IF i < Len(at_stops)
            THEN RSub(at_stops[i + 1].shape_weight_traveled,
                      at_stops[i].shape_weight_traveled)
            ELSE RInt(0)
        speed_to_next ==
            fillna(fdiv(weight_to_next, RInt(dist_to_next(at_stops, i))), RInt(0))
    IN  fillna(fdiv(RInt(dist_to_next(at_stops, i)), speed_to_next), RInt(0))

assign_arrival_time(trip_id, at_stops, elapsed, start_time) ==
    [i \in 1..Len(at_stops) |->
        [trip_id |-> trip_id,
         stop_id |-> at_stops[i].stop_id,
         stop_sequence |-> i - 1,
         arrival_time |-> fadd(elapsed[i], start_time),
         shape_dist_traveled |-> at_stops[i].shape_dist_traveled]]

\* departure_time=lambda x: x.arrival_time
assign_departure_time(rows) ==
    Map(rows, LAMBDA r :
        [trip_id |-> r.trip_id,
         stop_id |-> r.stop_id,
         stop_sequence |-> r.stop_sequence,
         arrival_time |-> r.arrival_time,
         departure_time |-> r.arrival_time,
         shape_dist_traveled |-> r.shape_dist_traveled])

\* the rows of the stops, from the sorted stops and shape points
stop_time_rows(trip_id, at_stops, start_time) ==
    assign_departure_time(
        assign_arrival_time(trip_id, at_stops,
            shift_cumsum([i \in 1..Len(at_stops) |-> duration_to_next(at_stops, i)]),
            start_time))

\* The result is [error, rows]: the call raises AttributeError when the
\* profile is the GeoDataFrame without columns
build_stop_times_for_trip(trip_id, stops_g_nearby, shape_id, linestring, zones_all, route_type, shape_point_speeds, default_speed, start_time, ties) ==
    IF ~shape_point_speeds.columns
    THEN [error |-> "AttributeError", rows |-> <<>>]
    ELSE [error |-> "",
          rows |-> stop_time_rows(trip_id,
              keep_stops(assign_weight_to_next(
                  sort_values(
                      f_of(stops_g_nearby, linestring, zones_all, route_type, ties)
                          \o sps_of(shape_point_speeds, shape_id),
                      by_dist, ties),
                  default_speed)),
              start_time)]

(***************************************************************************)
(* build_stop_times                                                        *)
(***************************************************************************)
\* The service area, west to east
AREA_XLO == -1000
AREA_XHI == 1100

\* speed_zones = None: one zone of infinite speed per route type present
default_speed_zones(freqs) ==
    Map(drop_duplicates(Map(freqs, LAMBDA r : r.route_type)), LAMBDA t :
        [route_type |-> t, speed_zone_id |-> <<"d", "e", "f", SEP>> \o str(t),
         speed |-> Inf, xlo |-> AREA_XLO, xhi |-> AREA_XHI])

\* speed_zones.geojson with two bus zones that meet in the middle of the
\* shapes, and no zone for rail
user_speed_zones == <<
    [route_type |-> 3, speed_zone_id |-> <<"z", "1">>, speed |-> RInt(10),
     xlo |-> AREA_XLO, xhi |-> 50],
    [route_type |-> 3, speed_zone_id |-> <<"z", "2">>, speed |-> RInt(50),
     xlo |-> 50, xhi |-> AREA_XHI] >>

\* speed_zones.geojson with one zone for rail, and no zone for the bus
rail_speed_zones == <<
    [route_type |-> 2, speed_zone_id |-> <<"z", "3">>, speed |-> RInt(30),
     xlo |-> AREA_XLO, xhi |-> AREA_XHI] >>

\* The trips with the frequency rows of their route and service window
trips_with_frequencies(freqs, rts, trps) ==
    LET with_freqs ==
            merge(rts, freqs,
                  LAMBDA l, r : l.route_short_name = r.route_short_name,
                  LAMBDA l, r : [route_id |-> l.route_id, freq |-> r])
        with_window ==
            Map(trps, LAMBDA t :
                [trip |-> t, service_window_id |-> split(t.trip_id, SEP)[3]])
    IN  merge(with_window, with_freqs,
              LAMBDA t, r : /\ t.trip.route_id = r.route_id
                            /\ t.service_window_id = r.freq.service_window_id,
              LAMBDA t, r : [trip_id |-> t.trip.trip_id,
                             shape_id |-> t.trip.shape_id,
                             route_type |-> r.freq.route_type,
                             frequency |-> r.freq.frequency,
                             speed |-> r.freq.speed])

group_key(row) == <<row.route_type, row.shape_id, row.speed>>

\* trips.groupby(["route_type", "shape_id", "speed"]): the groups in the
\* order of their keys, the rows of a group in the order of the table
groupby(rows) ==
    LET Le(a, b) == IF a[1] # b[1] THEN a[1] < b[1]
                    ELSE IF a[2] # b[2] THEN StrLe(a[2], b[2])
                    ELSE a[3] <= b[3]
        keys == stable_sort(drop_duplicates(Map(rows, group_key)), Le)
    IN  Map(keys, LAMBDA key :
            [key |-> key, rows |-> SelectSeq(rows, LAMBDA r : group_key(r) = key)])

\* The arguments that make the key of the lru_cache
cache_key(trip_id, stops_g_nearby, shape_id, linestring, zones, route_type, shape_point_speeds, default_speed, start_time) ==
    [trip_id |-> trip_id, stops_g_nearby |-> stops_g_nearby,
     shape_id |-> shape_id, linestring |-> linestring, speed_zones |-> zones,
     route_type |-> route_type, shape_point_speeds |-> shape_point_speeds,
     default_speed |-> default_speed, start_time |-> start_time]

TMP_TRIP_ID == <<"t", "m", "p">>

\* the trip ID filled in, the start time not added
fill_in_without_start_time(template, trip_id, start_time) ==
    Map(template, LAMBDA r : [r EXCEPT !.trip_id = trip_id])

\* the departure time taken from the cached frame
fill_in_stale_departure_time(template, trip_id, start_time) ==
    Map(template, LAMBDA r :
        [r EXCEPT !.trip_id = trip_id,
                  !.arrival_time = fadd(r.arrival_time, start_time)])

\* Fill in trip ID and start times of a cached frame
fill_in(template, trip_id, start_time) ==
    Map(template, LAMBDA r :
        LET arrival_time == fadd(r.arrival_time, start_time)
        IN  [r EXCEPT !.trip_id = trip_id,
                      !.arrival_time = arrival_time,
                      !.departure_time = arrival_time])

\* start time of a trip from its ID and the frequency of its row
trip_start_time(trip_id, frequency) ==
    LET parts == split(trip_id, SEP)
        headway == Rat(3600, frequency)
        base_time == timestr_to_seconds(parts[4])
    IN  RAdd(RInt(base_time), RMul(headway, RInt(int(parts[6]))))

\* HashableLineString.__hash__: the hash of the tuple of the coordinates
hash_linestring(linestring) == linestring

\* HashableLineString.__eq__: equals, the same set of points
eq_linestring(a, b) ==
    {X(a[i]) : i \in 1..Len(a)} = {X(b[i]) : i \in 1..Len(b)}
        /\ {Y(a[i]) : i \in 1..Len(a)} = {Y(b[i]) : i \in 1..Len(b)}

\* HashableGeoDataFrame.__hash__: the hashes of the rows with their index
hash_frame(rows) == rows

\* HashableGeoDataFrame.__eq__: equals, the same rows
eq_frame(a, b) == a = b

\* the hash the lru_cache takes of the arguments of a call
key_hash(ck) ==
    <<ck.trip_id, hash_frame(ck.stops_g_nearby), ck.shape_id,
      hash_linestring(ck.linestring), hash_frame(ck.speed_zones), ck.route_type,
      hash_frame(ck.shape_point_speeds), ck.default_speed, ck.start_time>>

\* the arguments of two calls compared one by one
key_eq(a, b) ==
    /\ a.trip_id = b.trip_id
    /\ eq_frame(a.stops_g_nearby, b.stops_g_nearby)
    /\ a.shape_id = b.shape_id
    /\ eq_linestring(a.linestring, b.linestring)
    /\ eq_frame(a.speed_zones, b.speed_zones)
    /\ a.route_type = b.route_type
    /\ eq_frame(a.shape_point_speeds, b.shape_point_speeds)
    /\ a.default_speed = b.default_speed
    /\ a.start_time = b.start_time

\* no entry is ever found
lru_lookup_nothing(cached, ck) == {}

\* the entries compared without their hash
lru_lookup_without_hash(cached, ck) == {e \in cached : key_eq(e.key, ck)}

\* the entries of the lru_cache found for the arguments of a call: those of
\* the same hash that compare equal
lru_lookup(cached, ck) ==
    {e \in cached : key_hash(e.key) = key_hash(ck) /\ key_eq(e.key, ck)}

\* _build_stop_times_for_trip: the value cached under the key, or else the
\* value computed
cached_build_stop_times_for_trip(cached, ck, ties) ==
    IF lru_lookup(cached, ck) # {}
    THEN (CHOOSE e \in lru_lookup(cached, ck) : TRUE).value
    ELSE build_stop_times_for_trip(ck.trip_id, ck.stops_g_nearby, ck.shape_id,
             ck.linestring, ck.speed_zones, ck.route_type,
             ck.shape_point_speeds, ck.default_speed, ck.start_time, ties)

\* what a call leaves behind, acc being [cache, frames, error, computed, hits,
\* result]: a hit is counted, a value computed is cached under its key, and
\* an exception is cached nowhere
record_call(ck, hit, result, acc) ==
    IF hit THEN [acc EXCEPT !.hits = @ + 1, !.result = result]
    ELSE IF result.error # ""
    THEN [acc EXCEPT !.computed = Append(@, ck), !.error = result.error,
                     !.result = result]
    ELSE [acc EXCEPT !.computed = Append(@, ck), !.result = result,
                     !.cache = @ \cup {[key |-> ck, value |-> result]}]

\* a call of _build_stop_times_for_trip through its lru_cache
lru_cache_call(ck, ties, acc) ==
    record_call(ck, lru_lookup(acc.cache, ck) # {},
                cached_build_stop_times_for_trip(acc.cache, ck, ties), acc)

\* trip_id.split(SEP) unpacks into six fields, two of them integers
well_formed(trip_id) ==
    /\ Len(split(trip_id, SEP)) = 6
    /\ IsInt(split(trip_id, SEP)[5])
    /\ IsInt(split(trip_id, SEP)[6])

\* the frame of one running trip of the group
frame(row, ck, result) ==
    [trip_id |-> row.trip_id,
     start_time |-> trip_start_time(row.trip_id, row.frequency),
     call |-> ck,
     rows |-> fill_in(result.rows, row.trip_id,
                      trip_start_time(row.trip_id, row.frequency))]

\* frames.append(f), unless the call raised
append_frame(row, ck, acc) ==
    IF acc.error # "" THEN acc
    ELSE [acc EXCEPT !.frames = Append(@, frame(row, ck, acc.result))]

\* The loop over the running rows of a group, from row i on: every row calls
\* the cached function with the arguments of the group
RECURSIVE iterrows_from(_, _, _, _, _)
iterrows_from(running, i, ck, ties, acc) ==
    IF i > Len(running) \/ acc.error # "" THEN acc
    ELSE IF ~well_formed(running[i].trip_id)
    THEN [acc EXCEPT !.error = "ValueError"]
    ELSE iterrows_from(running, i + 1, ck, ties,
                       append_frame(running[i], ck, lru_cache_call(ck, ties, acc)))

\* the loop entered also when there are no stops nearby
iterrows_without_continue(running, ck, ties, acc) ==
    iterrows_from(running, 1, ck, ties, acc)

iterrows(running, ck, ties, acc) ==
    IF ck.stops_g_nearby = <<>> THEN acc
    ELSE iterrows_from(running, 1, ck, ties, acc)

\* shapes_gi.loc[shape_id].geometry
linestring_of(shps, shape_id) ==
    (CHOOSE s \in Range(shps) : s.shape_id = shape_id).geometry

\* One pass of the loop over the groups: acc is [cache, frames, error,
\* computed, hits, result].
stop_times_for_group(key, rows, shps, stps, zones, buf, ties, acc) ==
    IF \A s \in Range(shps) : s.shape_id # key[2]
    THEN [acc EXCEPT !.error = "KeyError"]
    ELSE iterrows(
             SelectSeq(rows, LAMBDA r : r.frequency # 0),
             cache_key(TMP_TRIP_ID,
                 get_stops_nearby(stps, linestring_of(shps, key[2]),
                                  TRAFFIC_BY_TIMEZONE[agency_timezone], buf, 1),
                 key[2], linestring_of(shps, key[2]), zones, key[1],
                 compute_shape_point_speeds(shps, zones, key[1]),
                 RInt(key[3]), RInt(0)),
             ties, acc)

STOP_TIMES_COLUMNS == <<"trip_id", "stop_id", "stop_sequence", "arrival_time",
                        "departure_time", "shape_dist_traveled">>

\* The table returned: the frames concatenated, times as time strings
stop_times_table(frms) ==
    IF frms = <<>>
    THEN [columns |-> SubSeq(STOP_TIMES_COLUMNS, 1, 5), rows |-> <<>>]
    ELSE [columns |-> STOP_TIMES_COLUMNS,
          rows |-> Map(Concat(Map(frms, LAMBDA f : f.rows)), LAMBDA r :
              [r EXCEPT !.arrival_time = seconds_to_timestr(r.arrival_time),
                        !.departure_time = seconds_to_timestr(r.departure_time)])]

(***************************************************************************)
(* build_feed, one table at a time                                         *)
(***************************************************************************)
\* The runs of the model: the default or the given speed zones, the default
\* buffer or none
Configs == {
    [zones |-> "default", buffer |-> BUFFER, ties |-> "kept"],
    [zones |-> "default", buffer |-> 0, ties |-> "kept"],
    [zones |-> "given", buffer |-> BUFFER, ties |-> "kept"],
    [zones |-> "given", buffer |-> BUFFER, ties |-> "reversed"],
    [zones |-> "rail", buffer |-> BUFFER, ties |-> "kept"] }

Init ==
    /\ frequencies \in FreqTables
    /\ \E c \in Configs :
        /\ speed_zones = IF c.zones = "default"
                         THEN default_speed_zones(frequencies)
                         ELSE IF c.zones = "given" THEN user_speed_zones
                         ELSE rail_speed_zones
        /\ buffer = c.buffer
        /\ quicksort_ties = c.ties
    /\ pc = "routes"
    /\ routes = <<>>
    /\ shapes = <<>>
    /\ stops = <<>>
    /\ trips = <<>>
    /\ groups = <<>>
    /\ groups_done = 0
    /\ frames = <<>>
    /\ cache = {}
    /\ computed = <<>>
    /\ hits = 0
    /\ stop_times = [columns |-> <<>>, rows |-> <<>>]
    /\ feed = <<>>
    /\ files = {}
    /\ call = <<>>
    /\ returned = <<>>

BuildRoutes ==
    /\ pc = "routes"
    /\ routes' = build_routes(frequencies)
    /\ pc' = "shapes"
    /\ UNCHANGED <<feed, files, pfeed, shapes, stops, trips, groups, groups_done, frames,
                   cache, computed, hits, stop_times>>

BuildShapes ==
    /\ pc = "shapes"
    /\ shapes' = build_shapes(frequencies)
    /\ pc' = "stops"
    /\ UNCHANGED <<feed, files, pfeed, routes, stops, trips, groups, groups_done, frames,
                   cache, computed, hits, stop_times>>

BuildStops ==
    /\ pc = "stops"
    /\ stops' = build_stops
    /\ pc' = "trips"
    /\ UNCHANGED <<feed, files, pfeed, routes, shapes, trips, groups, groups_done, frames,
                   cache, computed, hits, stop_times>>

BuildTrips ==
    /\ pc = "trips"
    /\ trips' = build_trips(frequencies, routes)
    /\ pc' = "stop_times"
    /\ UNCHANGED <<feed, files, pfeed, routes, shapes, stops, groups, groups_done, frames,
                   cache, computed, hits, stop_times>>

\* build_stop_times: the trips are joined with the frequencies and grouped
StopTimesStart ==
    /\ pc = "stop_times"
    /\ groups' = groupby(trips_with_frequencies(frequencies, routes, trips))
    /\ pc' = "groups"
    /\ UNCHANGED <<feed, files, pfeed, routes, shapes, stops, trips, groups_done, frames,
                   cache, computed, hits, stop_times>>

\* build_stop_times: the body of the loop over the groups, for the next group
StopTimesGroup ==
    /\ pc = "groups"
    /\ groups_done < Len(groups)
    /\ \E acc \in {stop_times_for_group(groups[groups_done + 1].key,
                       groups[groups_done + 1].rows, shapes, stops,
                       speed_zones, buffer, quicksort_ties,
                       [cache |-> cache, frames |-> frames, error |-> "",
                        computed |-> computed, hits |-> hits,
                        result |-> <<>>])} :
           /\ cache' = acc.cache
           /\ frames' = acc.frames
           /\ computed' = acc.computed
           /\ hits' = acc.hits
           /\ groups_done' = groups_done + 1
           /\ pc' = IF acc.error = "" THEN "groups" ELSE acc.error
    /\ UNCHANGED <<feed, files, pfeed, routes, shapes, stops, trips, groups, stop_times>>

\* build_stop_times: after the loop, the table is made and the cache cleared
StopTimesReturn ==
    /\ pc = "groups"
    /\ groups_done = Len(groups)
    /\ stop_times' = stop_times_table(frames)
    /\ cache' = {}
    /\ pc' = "done"
    /\ UNCHANGED <<feed, files, pfeed, routes, shapes, stops, trips, groups, groups_done,
                   frames, computed, hits>>

Next ==
    \/ BuildRoutes
    \/ BuildShapes
    \/ BuildStops
    \/ BuildTrips
    \/ StopTimesStart
    \/ StopTimesGroup
    \/ StopTimesReturn

Spec == Init /\ [][Next]_vars

(***************************************************************************)
(* build_stop_times_for_trip called directly, as a user of the library or  *)
(* a test does: a straight path of 1000 metres, one to three candidate     *)
(* stops in any order, and the speed zones of the bus.                     *)
(***************************************************************************)
DIRECT_SHAPE_ID == <<"L", SEP, "1">>
DIRECT_TRIP_ID == <<"t", "r", "i", "p">>

DirectLinestrings == {
    << <<0, 0>>, <<1000, 0>> >>,
    << <<0, 0>>, <<500, 0>>, <<1000, 0>> >>,
    << <<1000, 0>>, <<0, 0>> >> }

\* the candidate stops: at both ends, at a quarter and in the middle, and
\* across the street from the stop at the end
DirectStops == {
    [stop_id |-> <<"s", "0">>, geometry |-> <<0, 5>>],
    [stop_id |-> <<"s", "1">>, geometry |-> <<250, 5>>],
    [stop_id |-> <<"s", "2">>, geometry |-> <<500, 5>>],
    [stop_id |-> <<"s", "3">>, geometry |-> <<1000, 5>>],
    [stop_id |-> <<"s", "4">>, geometry |-> <<1000, -5>>] }

\* the sequences of at most n distinct elements of S, in every order
RECURSIVE Orderings(_, _)
Orderings(S, n) ==
    IF n = 0 THEN {<<>>}
    ELSE {<<>>} \cup UNION {{<<e>> \o t : t \in Orderings(S \ {e}, n - 1)} : e \in S}

\* one zone at 30 kph, two zones at 10 and 50 kph that meet in the middle,
\* the default zone of infinite speed, and zones for another route type only
DirectSpeedZones == {
    << [route_type |-> 3, speed_zone_id |-> <<"z", "1">>, speed |-> RInt(30),
        xlo |-> AREA_XLO, xhi |-> AREA_XHI] >>,
    << [route_type |-> 3, speed_zone_id |-> <<"z", "1">>, speed |-> RInt(10),
        xlo |-> AREA_XLO, xhi |-> 500],
       [route_type |-> 3, speed_zone_id |-> <<"z", "2">>, speed |-> RInt(50),
        xlo |-> 500, xhi |-> AREA_XHI] >>,
    << [route_type |-> 3, speed_zone_id |-> <<"d", "e", "f", SEP, "3">>,
        speed |-> Inf, xlo |-> AREA_XLO, xhi |-> AREA_XHI] >>,
    << [route_type |-> 2, speed_zone_id |-> <<"z", "1">>, speed |-> RInt(30),
        xlo |-> AREA_XLO, xhi |-> AREA_XHI] >> }

DirectInit ==
    /\ \E linestring \in DirectLinestrings, zones \in DirectSpeedZones,
          stops_g_nearby \in Orderings(DirectStops, MaxStops),
          start_time \in {0, timestr_to_seconds(T0600)} :
        /\ shapes = << [shape_id |-> DIRECT_SHAPE_ID, geometry |-> linestring] >>
        /\ speed_zones = zones
        /\ stops = stops_g_nearby
        /\ call = cache_key(DIRECT_TRIP_ID, stops_g_nearby, DIRECT_SHAPE_ID,
                      linestring, zones, 3,
                      compute_shape_point_speeds(
                          << [shape_id |-> DIRECT_SHAPE_ID, geometry |-> linestring] >>,
                          zones, 3),
                      RInt(SPEED_BY_RTYPE[3]), RInt(start_time))
    /\ quicksort_ties \in {"kept", "reversed"}
    /\ pc = "call"
    /\ returned = <<>>
    /\ frequencies = <<>>
    /\ buffer = BUFFER
    /\ routes = <<>>
    /\ trips = <<>>
    /\ groups = <<>>
    /\ groups_done = 0
    /\ frames = <<>>
    /\ cache = {}
    /\ computed = <<>>
    /\ hits = 0
    /\ stop_times = [columns |-> <<>>, rows |-> <<>>]
    /\ feed = <<>>
    /\ files = {}

BuildStopTimesForTrip ==
    /\ pc = "call"
    /\ returned' = build_stop_times_for_trip(call.trip_id, call.stops_g_nearby,
                       call.shape_id, call.linestring, call.speed_zones,
                       call.route_type, call.shape_point_speeds,
                       call.default_speed, call.start_time, quicksort_ties)
    /\ pc' = "returned"
    /\ UNCHANGED <<feed, files, frequencies, speed_zones, buffer, quicksort_ties, call,
                   routes, shapes, stops, trips, groups, groups_done, frames,
                   cache, computed, hits, stop_times>>

DirectNext == BuildStopTimesForTrip

DirectSpec == DirectInit /\ [][DirectNext]_vars

(***************************************************************************)
(* _build_stop_times_for_trip called several times in a row, every call    *)
(* with arguments built anew: objects is the identity of the linestring    *)
(* and the frames of a call, the other fields are their content.           *)
(***************************************************************************)
with_identity(ck, id) ==
    [f \in DOMAIN ck \cup {"objects"} |-> IF f = "objects" THEN id ELSE ck[f]]

\* what the calls are made with: the three paths, two or one stops, and
\* zones of the route type or of another route type only
CacheContents ==
    {cache_key(TMP_TRIP_ID, stops_g_nearby, DIRECT_SHAPE_ID, linestring, zones,
         3,
         compute_shape_point_speeds(
             << [shape_id |-> DIRECT_SHAPE_ID, geometry |-> linestring] >>,
             zones, 3),
         RInt(SPEED_BY_RTYPE[3]), RInt(0)) :
        linestring \in DirectLinestrings,
        stops_g_nearby \in {s \in Orderings(DirectStops, 2) :
                               /\ s # <<>>
                               /\ s[1].stop_id = <<"s", "0">>
                               /\ s[Len(s)].stop_id \in {<<"s", "0">>, <<"s", "3">>}},
        zones \in {z \in DirectSpeedZones : Len(z) = 1 /\ z[1].speed # Inf}}

CacheInit ==
    /\ pc = "cached_call"
    /\ cache = {}
    /\ computed = <<>>
    /\ hits = 0
    /\ call = <<>>
    /\ returned = <<>>
    /\ quicksort_ties = "kept"
    /\ frequencies = <<>>
    /\ speed_zones = <<>>
    /\ buffer = BUFFER
    /\ routes = <<>>
    /\ shapes = <<>>
    /\ stops = <<>>
    /\ trips = <<>>
    /\ groups = <<>>
    /\ groups_done = 0
    /\ frames = <<>>
    /\ stop_times = [columns |-> <<>>, rows |-> <<>>]
    /\ feed = <<>>
    /\ files = {}

\* one call through the lru_cache, its arguments new objects
CachedCall ==
    /\ pc = "cached_call"
    /\ Len(computed) + hits < MaxCalls
    /\ \E content \in CacheContents :
        /\ call' = with_identity(content, Len(computed) + hits + 1)
        /\ \E acc \in {lru_cache_call(
                            with_identity(content, Len(computed) + hits + 1),
                            quicksort_ties,
                            [cache |-> cache, frames |-> <<>>, error |-> "",
                             computed |-> computed, hits |-> hits,
                             result |-> <<>>])} :
            /\ cache' = acc.cache
            /\ computed' = acc.computed
            /\ hits' = acc.hits
            /\ returned' = acc.result
    /\ UNCHANGED <<feed, files, frequencies, speed_zones, buffer, pc, routes, shapes, stops,
                   trips, quicksort_ties, groups, groups_done, frames,
                   stop_times>>

CacheNext == CachedCall

CacheSpec == CacheInit /\ [][CacheNext]_vars

(***************************************************************************)
(* The conversion between time strings and seconds, called on a value and  *)
(* then on what it returned, in the other direction.                       *)
(***************************************************************************)
\* numbers of seconds, with minutes and seconds at the ends of their range
TimeSeconds ==
    {h * 3600 + m * 60 + sec : h \in 0..MaxHours, m \in {0, 1, 59},
                               sec \in {0, 1, 59}}

\* strings of three fields of two digits, and hours of three digits
TimeStrings ==
    {<<h1, h2, ":", m1, m2, ":", s1, s2>> :
        h1 \in {"0", "2", "9"}, h2 \in {"0", "1", "5"}, m1 \in {"0", "5", "6"},
        m2 \in {"1", "9"}, s1 \in {"0", "5"}, s2 \in {"1", "9"}}
    \cup {<<h1, "0", "0", ":", "0", "1", ":", "0", "1">> : h1 \in {"0", "1"}}

\* strings that are no time strings, or not padded
OtherStrings == {
    <<>>,
    <<"a", "b">>,
    <<"3", "6", "6", "1">>,
    <<" ", "6", "1", " ">>,
    <<"-", "1">>,
    <<"0", "1", ":", "0", "1">>,
    <<"0", "1", ":", "0", "1", ":", "0", "1", ":", "0", "1">>,
    <<"1", ":", "1", ":", "1">>,
    <<"0", "1", ":", "a", "b", ":", "0", "1">>,
    <<"0", "1", ":", ":", "0", "1">>,
    <<"-", "1", ":", "5", "9", ":", "5", "9">>,
    <<" ", "1", ":", "+", "1", ":", "0", "1">> }

TimeValues ==
    {PyInt(n) : n \in TimeSeconds \cup {-1, -3600}}
    \cup {PyFloat(r) : r \in {<<7323, 2>>, <<-3, 2>>, NaNR, Inf}}
    \cup {PyStr(t) : t \in TimeStrings \cup OtherStrings}
    \cup {None}

\* the function called
convert(c, x, inverse) ==
    IF c.function = "timestr_to_seconds"
    THEN make_gtfs_timestr_to_seconds(x, inverse, c.mod24)
    ELSE feed_seconds_to_timestr(x, inverse)

TimeInit ==
    /\ pc = "convert"
    /\ \E x \in TimeValues, inverse \in BOOLEAN, mod24 \in BOOLEAN,
          function \in {"timestr_to_seconds", "seconds_to_timestr"} :
        /\ function = "seconds_to_timestr" => ~mod24
        /\ call = [function |-> function, x |-> x, inverse |-> inverse,
                   mod24 |-> mod24, first |-> None]
    /\ returned = None
    /\ cache = {}
    /\ computed = <<>>
    /\ hits = 0
    /\ quicksort_ties = "kept"
    /\ frequencies = <<>>
    /\ speed_zones = <<>>
    /\ buffer = BUFFER
    /\ routes = <<>>
    /\ shapes = <<>>
    /\ stops = <<>>
    /\ trips = <<>>
    /\ groups = <<>>
    /\ groups_done = 0
    /\ frames = <<>>
    /\ stop_times = [columns |-> <<>>, rows |-> <<>>]
    /\ feed = <<>>
    /\ files = {}

\* the call on the value
Convert ==
    /\ pc = "convert"
    /\ returned' = convert(call, call.x, call.inverse)
    /\ pc' = "converted"
    /\ UNCHANGED <<feed, files, frequencies, speed_zones, buffer, routes, shapes, stops,
                   trips, quicksort_ties, groups, groups_done, frames, cache,
                   computed, hits, stop_times, call>>

\* the call in the other direction on what the first call returned
ConvertBack ==
    /\ pc = "converted"
    /\ returned # None
    /\ call' = [call EXCEPT !.first = returned]
    /\ returned' = convert(call, returned, ~call.inverse)
    /\ pc' = "back"
    /\ UNCHANGED <<feed, files, frequencies, speed_zones, buffer, routes, shapes, stops,
                   trips, quicksort_ties, groups, groups_done, frames, cache,
                   computed, hits, stop_times>>

TimeNext == Convert \/ ConvertBack

TimeSpec == TimeInit /\ [][TimeNext]_vars

(***************************************************************************)
(* get_stops_nearby called directly on two candidate stops or fewer, once  *)
(* for every side. Lengths are in steps of 1/100000 of the distance unit:  *)
(* the path is 2 units long and the buffer is 1 unit or zero.              *)
(***************************************************************************)
NEARBY_SHAPE_ID == <<"N">>

NearbyLinestrings == {
    << <<0, 0>>, <<200000, 0>> >>,
    << <<200000, 0>>, <<0, 0>> >> }

\* the candidates: one unit north and one unit south of the middle of the
\* path, 0.0005 units further north, 0.00005 units south of the path,
\* 0.0005 units past the eastern end of the path, and 3 units north
NearbyStops == {
    [stop_id |-> <<"a">>, geometry |-> <<100000, 100000>>],
    [stop_id |-> <<"b">>, geometry |-> <<100000, -100000>>],
    [stop_id |-> <<"c">>, geometry |-> <<100000, 100050>>],
    [stop_id |-> <<"d">>, geometry |-> <<100000, -5>>],
    [stop_id |-> <<"e">>, geometry |-> <<200050, 50000>>],
    [stop_id |-> <<"f">>, geometry |-> <<100000, 300000>>] }

Sides == {"left", "right", "both"}

NearbyInit ==
    /\ pc = "nearby"
    /\ \E linestring \in NearbyLinestrings :
        shapes = << [shape_id |-> NEARBY_SHAPE_ID, geometry |-> linestring] >>
    /\ stops \in Orderings(NearbyStops, MaxRows)
    /\ buffer \in {100000, 0}
    /\ returned = <<>>
    /\ call = <<>>
    /\ cache = {}
    /\ computed = <<>>
    /\ hits = 0
    /\ quicksort_ties = "kept"
    /\ frequencies = <<>>
    /\ speed_zones = <<>>
    /\ routes = <<>>
    /\ trips = <<>>
    /\ groups = <<>>
    /\ groups_done = 0
    /\ frames = <<>>
    /\ stop_times = [columns |-> <<>>, rows |-> <<>>]
    /\ feed = <<>>
    /\ files = {}

\* one call for a side not yet asked for; returned keeps the result by side
GetStopsNearby ==
    /\ pc = "nearby"
    /\ \E side \in Sides \ {r.side : r \in Range(returned)} :
        returned' = Append(returned,
            [side |-> side,
             stops |-> get_stops_nearby(stops, shapes[1].geometry, side,
                                        buffer, 100000)])
    /\ UNCHANGED <<feed, files, frequencies, speed_zones, buffer, pc, routes, shapes,
                   stops, trips, quicksort_ties, groups, groups_done, frames,
                   cache, computed, hits, stop_times, call>>

NearbyNext == GetStopsNearby

NearbySpec == NearbyInit /\ [][NearbyNext]_vars

(***************************************************************************)
(* The legacy Feed class of make_gtfs.py. A Feed is [raw_shapes, headways, *)
(* attributes, error]: raw_shapes says whether every feature of            *)
(* shapes.geojson names a route of routes.csv, headways whether routes.csv *)
(* has the headway column of every service window, attributes is the set   *)
(* of attributes that hold a table, and error is the exception a method    *)
(* has raised, if any. A method leaves a Feed that has raised as it is.    *)
(***************************************************************************)
\* names in Feed.export, in the order of its two loops
names == <<"agency", "calendar", "routes", "stops", "shapes", "trips",
           "stop_times">>

\* self.<name> = ...
setattr(f, name) == [f EXCEPT !.attributes = @ \cup {name}]

create_agency(f) ==
    IF f.error # "" THEN f ELSE setattr(f, "agency")

create_calendar(f) ==
    IF f.error # "" THEN f
    ELSE setattr(setattr(f, "service_by_swname"), "calendar")

create_routes(f) ==
    IF f.error # "" THEN f ELSE setattr(f, "routes")

\* what get_linestring_by_route leaves of the Feed: rid_by_rsn[...] raises
\* KeyError on a feature that names no route of routes.csv
get_linestring_by_route(f) ==
    LET g == IF "routes" \in f.attributes THEN f ELSE create_routes(f)
    IN  IF g.error # "" THEN g
        ELSE IF g.raw_shapes = "unknown route" THEN [g EXCEPT !.error = "KeyError"]
        ELSE g

create_shapes(f) ==
    LET g == get_linestring_by_route(
                 IF "routes" \in f.attributes THEN f ELSE create_routes(f))
    IN  IF g.error # "" THEN g ELSE setattr(g, "shapes")

create_stops(f) ==
    LET g == get_linestring_by_route(
                 IF "routes" \in f.attributes THEN f ELSE create_routes(f))
    IN  IF g.error # "" THEN g ELSE setattr(g, "stops")

\* row[swname + '_headway'] raises KeyError without the column
create_trips(f) ==
    LET g1 == IF "calendar" \in f.attributes THEN f ELSE create_calendar(f)
        g2 == IF "routes" \in g1.attributes THEN g1 ELSE create_routes(g1)
        g3 == IF "shapes" \in g2.attributes THEN g2 ELSE create_shapes(g2)
    IN  IF g3.error # "" THEN g3
        ELSE IF g3.headways = "missing" THEN [g3 EXCEPT !.error = "KeyError"]
        ELSE setattr(g3, "trips")

create_stop_times(f) ==
    LET g1 == IF "stops" \in f.attributes THEN f ELSE create_stops(f)
        g2 == IF "trips" \in g1.attributes THEN g1 ELSE create_trips(g1)
        g3 == get_linestring_by_route(g2)
    IN  IF g3.error # "" THEN g3
        ELSE IF g3.headways = "missing" THEN [g3 EXCEPT !.error = "KeyError"]
        ELSE setattr(g3, "stop_times")

create_all(f) ==
    create_stop_times(create_trips(create_stops(create_shapes(
        create_routes(create_calendar(create_agency(f)))))))

\* the first loop of export: assert hasattr(self, name) for every name
RECURSIVE assert_hasattr(_, _)
assert_hasattr(f, i) ==
    IF i > Len(names) THEN f
    ELSE IF names[i] \notin f.attributes
    THEN [f EXCEPT !.error = "AssertionError"]
    ELSE assert_hasattr(f, i + 1)

\* the second loop of export: to_csv for every name, in order;
\* getattr raises AttributeError on a name that is no attribute
RECURSIVE to_csv(_, _, _)
to_csv(f, written, i) ==
    IF i > Len(names) THEN [feed |-> f, files |-> written]
    ELSE IF names[i] \notin f.attributes
    THEN [feed |-> [f EXCEPT !.error = "AttributeError"], files |-> written]
    ELSE to_csv(f, written \cup {names[i]}, i + 1)

\* export without the first loop
export_without_assert(f, written) == to_csv(f, written, 1)

\* export(output_dir, as_zip=False): the Feed and the files afterwards
export(f, written) ==
    IF assert_hasattr(f, 1).error # ""
    THEN [feed |-> assert_hasattr(f, 1), files |-> written]
    ELSE to_csv(f, written, 1)

Methods == {"create_agency", "create_calendar", "create_routes",
            "create_shapes", "create_stops", "create_trips",
            "create_stop_times", "create_all"}

\* the Feed after the method, called on a Feed without error
invoke(method, f) ==
    CASE method = "create_agency" -> create_agency(f)
      [] method = "create_calendar" -> create_calendar(f)
      [] method = "create_routes" -> create_routes(f)
      [] method = "create_shapes" -> create_shapes(f)
      [] method = "create_stops" -> create_stops(f)
      [] method = "create_trips" -> create_trips(f)
      [] method = "create_stop_times" -> create_stop_times(f)
      [] method = "create_all" -> create_all(f)

\* Feed(input_dir): no table yet
LegacyInit ==
    /\ pc = "legacy"
    /\ \E raw_shapes \in {"known routes", "unknown route"},
          headways \in {"given", "missing"} :
        feed = [raw_shapes |-> raw_shapes, headways |-> headways,
                attributes |-> {}, error |-> ""]
    /\ files = {}
    /\ call = ""
    /\ returned = ""
    /\ cache = {}
    /\ computed = <<>>
    /\ hits = 0
    /\ quicksort_ties = "kept"
    /\ frequencies = <<>>
    /\ speed_zones = <<>>
    /\ buffer = BUFFER
    /\ routes = <<>>
    /\ shapes = <<>>
    /\ stops = <<>>
    /\ trips = <<>>
    /\ groups = <<>>
    /\ groups_done = 0
    /\ frames = <<>>
    /\ stop_times = [columns |-> <<>>, rows |-> <<>>]

\* one of the create methods is called; the caller catches what it raises
Create ==
    /\ pc = "legacy"
    /\ \E method \in Methods :
        /\ call' = method
        /\ returned' = invoke(method, [feed EXCEPT !.error = ""]).error
        /\ feed' = [invoke(method, [feed EXCEPT !.error = ""])
                       EXCEPT !.error = ""]
    /\ UNCHANGED <<frequencies, speed_zones, buffer, pc, routes, shapes,
                   stops, trips, quicksort_ties, groups, groups_done, frames,
                   cache, computed, hits, stop_times, files>>

\* export is called; the caller catches what it raises
Export ==
    /\ pc = "legacy"
    /\ call' = "export"
    /\ returned' = export(feed, files).feed.error
    /\ files' = export(feed, files).files
    /\ UNCHANGED <<frequencies, speed_zones, buffer, pc, routes, shapes,
                   stops, trips, quicksort_ties, groups, groups_done, frames,
                   cache, computed, hits, stop_times, feed>>

LegacyNext == Create \/ Export

LegacySpec == LegacyInit /\ [][LegacyNext]_vars

(***************************************************************************)
(* The claims.                                                             *)
(***************************************************************************)
TripsBuilt == pc \notin {"routes", "shapes", "stops", "trips", "call", "returned"}

\* The service window of a frequency row
window_of(row) ==
    CHOOSE w \in Range(service_windows) :
        w.service_window_id = row.service_window_id

\* floor(frequency x duration_h), from the seconds of the window
floor_count(row) ==
    (row.frequency * (timestr_to_seconds(window_of(row).end_time)
                      - timestr_to_seconds(window_of(row).start_time))) \div 3600

produced_directions(row) == IF row.direction = 2 THEN {0, 1} ELSE {row.direction}

RECURSIVE SumSeq(_)
SumSeq(s) == IF s = <<>> THEN 0 ELSE Head(s) + SumSeq(Tail(s))

\* C1: every frequency row with frequency > 0 gives floor(frequency x
\* duration_h) trips for each direction it produces (both directions in full
\* for direction 2), and the trips table has as many rows as the sum of these
\* counts over the frequency rows.
C1_TripCountPerFrequencyRow ==
    TripsBuilt =>
        Len(trips) = SumSeq(Map(frequencies, LAMBDA r :
                        floor_count(r) * Cardinality(produced_directions(r))))

\* C2: the rows returned for a trip, in the order of stop_sequence 0, 1, ...,
\* have non-decreasing shape_dist_traveled and non-decreasing arrival_time,
\* in whatever order the candidate stops were given.
C2_RowsInTravelOrder ==
    (pc = "returned") =>
        \A i, j \in 1..Len(returned.rows) :
            /\ returned.rows[i].stop_sequence = i - 1
            /\ i <= j =>
                /\ returned.rows[i].shape_dist_traveled
                       <= returned.rows[j].shape_dist_traveled
                /\ RLe(returned.rows[i].arrival_time, returned.rows[j].arrival_time)

\* three stops given in an order that is not the order of travel, reached at
\* different times
C2_Witness ==
    /\ pc = "returned"
    /\ Len(call.stops_g_nearby) = 3
    /\ project(call.linestring, call.stops_g_nearby[1].geometry)
           > project(call.linestring, call.stops_g_nearby[2].geometry)
    /\ Len(returned.rows) >= 3
    /\ RLt(returned.rows[1].arrival_time,
           returned.rows[Len(returned.rows)].arrival_time)

\* the part of the path between the distances d1 <= d2 that lies in a zone
piece_length(zone, linestring, d1, d2) ==
    LET x0 == X(linestring[1])
        forward == x0 <= X(linestring[Len(linestring)])
        lo == IF forward THEN zone.xlo - x0 ELSE x0 - zone.xhi
        hi == IF forward THEN zone.xhi - x0 ELSE x0 - zone.xlo
        from == IF d1 > lo THEN d1 ELSE lo
        to == IF d2 < hi THEN d2 ELSE hi
    IN  IF to > from THEN to - from ELSE 0

\* the speed of a zone in meters per second, the default speed of the route
\* where the zone has none
piece_speed(zone, default_speed) ==
    RMul(IF zone.speed = Inf THEN default_speed ELSE zone.speed, Rat(1000, 3600))

\* sum of piece_length / piece_speed over the zones of the route type
time_over_pieces(d1, d2) ==
    LET zones == SelectSeq(call.speed_zones,
                           LAMBDA z : z.route_type = call.route_type)
        times == Map(zones, LAMBDA z :
                     RDiv(RInt(piece_length(z, call.linestring, d1, d2)),
                          piece_speed(z, call.default_speed)))
    IN  sum_to(times, Len(times))

\* C3: the travel time between two consecutive stops of a trip is the sum,
\* over the pieces of constant speed of the path between them, of the length
\* of the piece divided by its speed (lengths in meters, speeds converted
\* from kilometers per hour to meters per second).
C3_TravelTimeIsSumOverPieces ==
    (pc = "returned" /\ returned.error = "") =>
        \A i \in 1..(Len(returned.rows) - 1) :
            RSub(returned.rows[i + 1].arrival_time, returned.rows[i].arrival_time)
                = time_over_pieces(returned.rows[i].shape_dist_traveled,
                                   returned.rows[i + 1].shape_dist_traveled)

\* the rows the uncached function returns for the trip of a frame
direct_rows(trip_frame) ==
    build_stop_times_for_trip(trip_frame.trip_id, trip_frame.call.stops_g_nearby,
        trip_frame.call.shape_id, trip_frame.call.linestring, trip_frame.call.speed_zones,
        trip_frame.call.route_type, trip_frame.call.shape_point_speeds,
        trip_frame.call.default_speed, trip_frame.start_time, quicksort_ties).rows

C5_TripIdsUnique ==
    TripsBuilt =>
        \A i, j \in 1..Len(trips) : i # j => trips[i].trip_id # trips[j].trip_id

\* C6: splitting the trip_id of a built trip on the separator gives six
\* fields: "t", the route id, the service window id, the start time string of
\* that window, the direction and the sequence index of the trip, as they
\* were in the frequency row and the service window the trip was built from.
C6_TripIdSplitsIntoItsFields ==
    TripsBuilt =>
        \A n \in 1..Len(trips) :
            LET trip == trips[n]
                parts == split(trip.trip_id, SEP)
            IN  /\ Len(parts) = 6
                /\ parts[1] = <<"t">>
                /\ parts[2] = trip.route_id
                /\ IsInt(parts[5]) /\ int(parts[5]) = trip.direction_id
                /\ IsInt(parts[6])
                /\ \E r \in Range(frequencies) :
                    /\ <<"r">> \o r.route_short_name = parts[2]
                    /\ r.service_window_id = parts[3]
                    /\ service_by_window(parts[3]) = trip.service_id
                    /\ window_of(r).start_time = parts[4]
                    /\ timestr_to_seconds(parts[4]) # NaN
                    /\ trip.direction_id \in produced_directions(r)
                    /\ trip.shape_id = r.shape_id \o <<SEP>> \o parts[5]
                    /\ int(parts[6]) < floor_count(r)
                    /\ str(int(parts[6])) = parts[6]

\* a trip of direction 1 with a sequence index above 0 has been built
C6_Witness ==
    /\ TripsBuilt
    /\ \E n \in 1..Len(trips) :
        /\ trips[n].direction_id = 1
        /\ split(trips[n].trip_id, SEP)[6] = <<"1">>

\* stops lie within the buffer on the traffic side of the shape
located(shape_id) ==
    get_stops_nearby(stops, linestring_of(shapes, shape_id),
                     TRAFFIC_BY_TIMEZONE[agency_timezone], buffer, 1) # <<>>

running_frequencies == SelectSeq(frequencies, LAMBDA r : r.frequency # 0)

\* the frames build_stop_times makes from the given frequency rows, when no
\* group raises
frames_of(freqs) ==
    Concat(Map(groupby(trips_with_frequencies(freqs, build_routes(freqs),
                           build_trips(freqs, build_routes(freqs)))),
               LAMBDA g :
                   stop_times_for_group(g.key, g.rows, build_shapes(freqs),
                       stops, speed_zones, buffer, quicksort_ties,
                       [cache |-> {}, frames |-> <<>>, error |-> "",
                        computed |-> <<>>, hits |-> 0,
                        result |-> <<>>]).frames))

\* C8: the trips and the stop times of a feed with frequency rows of
\* frequency 0 are those of the feed without these rows.
C8_ZeroFrequencyRowAsAbsent ==
    (pc = "done") =>
        /\ trips = build_trips(running_frequencies,
                               build_routes(running_frequencies))
        /\ stop_times = stop_times_table(frames_of(running_frequencies))

\* C9: departure_time equals arrival_time in every row of the cached frames,
\* of the frames of the trips and of the table returned.
C9_DepartureEqualsArrival ==
    /\ \A e \in cache : \A r \in Range(e.value.rows) :
        r.departure_time = r.arrival_time
    /\ \A i \in 1..Len(frames) : \A r \in Range(frames[i].rows) :
        r.departure_time = r.arrival_time
    /\ \A r \in Range(stop_times.rows) : r.departure_time = r.arrival_time

\* the table returned has a row at a later stop of a later trip
C9_Witness ==
    /\ pc = "done"
    /\ \E r \in Range(stop_times.rows) :
        /\ r.stop_sequence >= 1
        /\ split(r.trip_id, SEP)[6] # <<"0">>
        /\ r.arrival_time \notin {T0600, T0700}

\* one zone of finite speed for the route type, over the whole path
single_zone ==
    LET zones == SelectSeq(call.speed_zones,
                           LAMBDA z : z.route_type = call.route_type)
    IN  /\ Len(zones) = 1
        /\ zones[1].speed # Inf
        /\ \A i \in 1..Len(call.linestring) : in_zone(zones[1], call.linestring[i])

zone_speed ==
    SelectSeq(call.speed_zones, LAMBDA z : z.route_type = call.route_type)[1].speed

\* C10 as stated: with a single zone of finite speed v over the whole path,
\* consecutive stops at distances d1 <= d2 are (d2 - d1) / v apart in time.
C10_TimeIsDistanceOverSpeed ==
    (pc = "returned" /\ single_zone) =>
        \A i \in 1..(Len(returned.rows) - 1) :
            RSub(returned.rows[i + 1].arrival_time, returned.rows[i].arrival_time)
                = RDiv(RInt(returned.rows[i + 1].shape_dist_traveled
                            - returned.rows[i].shape_dist_traveled),
                       zone_speed)

\* C10 amended: with a single zone of finite speed v kilometers per hour over
\* the whole path, consecutive stops at distances d1 <= d2 meters are
\* (d2 - d1) / (v * 1000 / 3600) seconds apart.
C10_TimeIsMetersOverMetersPerSecond ==
    (pc = "returned" /\ single_zone) =>
        \A i \in 1..(Len(returned.rows) - 1) :
            RSub(returned.rows[i + 1].arrival_time, returned.rows[i].arrival_time)
                = RDiv(RInt(returned.rows[i + 1].shape_dist_traveled
                            - returned.rows[i].shape_dist_traveled),
                       RMul(zone_speed, Rat(1000, 3600)))

\* the path of 1000 meters in a zone of 30 kilometers per hour, stops at
\* both ends, start time 0: the second stop is reached after 120 seconds
C10_Witness ==
    /\ pc = "returned"
    /\ single_zone
    /\ zone_speed = RInt(30)
    /\ call.start_time = RInt(0)
    /\ Len(returned.rows) = 2
    /\ returned.rows[1].shape_dist_traveled = 0
    /\ returned.rows[2].shape_dist_traveled = 1000
    /\ returned.rows[2].arrival_time = RInt(120)

\* the zones of the route type of the call
zones_of_call ==
    SelectSeq(call.speed_zones, LAMBDA z : z.route_type = call.route_type)

\* one zone of infinite speed for the route type, over the whole path
unbounded_zone ==
    /\ Len(zones_of_call) = 1
    /\ zones_of_call[1].speed = Inf
    /\ \A i \in 1..Len(call.linestring) :
        in_zone(zones_of_call[1], call.linestring[i])

\* a number of seconds that is neither NaN nor infinite
finite(x) == x[2] # 0

\* C11: with a single zone of infinite speed over the whole path, every
\* arrival time is finite, and between the first and the last stop the
\* distance in meters is the time in seconds times default_speed kilometers
\* per hour times 1000 / 3600, so that the average speed is default_speed.
C11_DefaultSpeedWhereUnbounded ==
    (pc = "returned" /\ unbounded_zone) =>
        /\ returned.error = ""
        /\ \A i \in 1..Len(returned.rows) : finite(returned.rows[i].arrival_time)
        /\ returned.rows # <<>> =>
            RMul(RSub(returned.rows[Len(returned.rows)].arrival_time,
                      returned.rows[1].arrival_time),
                 RMul(call.default_speed, Rat(1000, 3600)))
                = RInt(returned.rows[Len(returned.rows)].shape_dist_traveled
                       - returned.rows[1].shape_dist_traveled)

\* the path of 1000 meters in the zone of infinite speed, default speed 22
\* kilometers per hour: the last stop is reached 1000 / (22 / 3.6) seconds
\* after the first
C11_Witness ==
    /\ pc = "returned"
    /\ unbounded_zone
    /\ Len(returned.rows) >= 2
    /\ returned.rows[1].shape_dist_traveled = 0
    /\ returned.rows[Len(returned.rows)].shape_dist_traveled = 1000
    /\ RSub(returned.rows[Len(returned.rows)].arrival_time,
            returned.rows[1].arrival_time) = Rat(1000 * 3600, 22 * 1000)

\* C12: when no speed zone has the route type of the trip, the profile of
\* compute_shape_point_speeds is empty, the call succeeds with one row for
\* every located stop, and the times are those of the default speed.
C12_NoZoneOfRouteTypeStillSucceeds ==
    (pc = "returned" /\ zones_of_call = <<>>) =>
        /\ call.shape_point_speeds.rows = <<>>
        /\ returned.error = ""
        /\ Len(returned.rows) = Len(call.stops_g_nearby)
        /\ \A i \in 1..Len(returned.rows) :
            RMul(RSub(returned.rows[i].arrival_time, call.start_time),
                 RMul(call.default_speed, Rat(1000, 3600)))
                = RInt(returned.rows[i].shape_dist_traveled
                       - returned.rows[1].shape_dist_traveled)

\* C13: two consecutive rows at the same distance along the path have the
\* same arrival time, and no arrival_time or departure_time returned is NaN
\* or infinite.
C13_ZeroLengthSegmentTakesNoTime ==
    (pc = "returned") =>
        /\ \A i \in 1..Len(returned.rows) :
            /\ finite(returned.rows[i].arrival_time)
            /\ finite(returned.rows[i].departure_time)
        /\ \A i \in 1..(Len(returned.rows) - 1) :
            returned.rows[i].shape_dist_traveled
                    = returned.rows[i + 1].shape_dist_traveled
                => returned.rows[i + 1].arrival_time = returned.rows[i].arrival_time

\* two different stops at the end of the path, reached at the same time
\* after the start time
C13_Witness ==
    /\ pc = "returned"
    /\ \E i \in 1..(Len(returned.rows) - 1) :
        /\ returned.rows[i].stop_id # returned.rows[i + 1].stop_id
        /\ returned.rows[i].shape_dist_traveled
               = returned.rows[i + 1].shape_dist_traveled
        /\ returned.rows[i + 1].arrival_time = returned.rows[i].arrival_time
        /\ RLt(call.start_time, returned.rows[i].arrival_time)

\* C14: the call returns exactly one row for each located stop it is given:
\* as many rows as stops, and every stop in exactly one row.
C14_OneRowPerLocatedStop ==
    (pc = "returned") =>
        /\ returned.error = ""
        /\ Len(returned.rows) = Len(call.stops_g_nearby)
        /\ \A n \in 1..Len(call.stops_g_nearby) :
            Cardinality({i \in 1..Len(returned.rows) :
                returned.rows[i].stop_id = call.stops_g_nearby[n].stop_id}) = 1

\* C15: with exactly one located stop the call returns exactly one row, with
\* stop_sequence 0 and arrival_time = departure_time = start_time.
C15_OneStopOneRowAtStartTime ==
    (pc = "returned" /\ Len(call.stops_g_nearby) = 1) =>
        /\ returned.error = ""
        /\ Len(returned.rows) = 1
        /\ returned.rows[1].stop_sequence = 0
        /\ returned.rows[1].arrival_time = call.start_time
        /\ returned.rows[1].departure_time = call.start_time

\* the content of the arguments of a call: the coordinates of the path, the
\* rows of the frames, and the plain values
content_of(ck) ==
    [trip_id |-> ck.trip_id, stops_g_nearby |-> ck.stops_g_nearby,
     shape_id |-> ck.shape_id, linestring |-> ck.linestring,
     speed_zones |-> ck.speed_zones, route_type |-> ck.route_type,
     shape_point_speeds |-> ck.shape_point_speeds,
     default_speed |-> ck.default_speed, start_time |-> ck.start_time]

\* the entries whose key has the content of the arguments
same_content(ck) == {e \in cache : content_of(e.key) = content_of(ck)}

groups_with_frames ==
    {g \in 1..groups_done :
        /\ located(groups[g].key[2])
        /\ \E r \in Range(groups[g].rows) : r.frequency # 0}

\* C17: within a call of build_stop_times the uncached function runs once
\* for every group of (route_type, shape_id, speed) that has located stops
\* and a running trip, never twice for a key, and every other running trip
\* is served from the cache.
C17_OneComputationPerKey ==
    /\ \A i, j \in 1..Len(computed) : i # j => computed[i] # computed[j]
    /\ pc \in {"groups", "done"} =>
        /\ Len(computed) = Cardinality(groups_with_frames)
        /\ \A g \in groups_with_frames : \E i \in 1..Len(computed) :
            groups[g].key = <<computed[i].route_type, computed[i].shape_id,
                              computed[i].default_speed[1]>>
        /\ Len(computed) + hits = Len(frames)
        /\ hits = Cardinality({i \in 1..Len(frames) :
                    \E j \in 1..(i - 1) : frames[j].call = frames[i].call})
    /\ pc = "groups" => {e.key : e \in cache} = Range(computed)

\* two groups computed, and a trip served from the cache
C17_Witness ==
    /\ pc = "done"
    /\ Len(computed) >= 2
    /\ hits >= 1

\* C18: when a call of build_stop_times ends, by returning or by raising,
\* the cache is empty.
C18_CacheEmptyWhenCallEnds ==
    pc \in {"done", "KeyError", "ValueError", "AttributeError"} => cache = {}

\* the call turns seconds into a time string
formats(c) == (c.function = "timestr_to_seconds") = c.inverse

\* a string of digits read in base ten
RECURSIVE digits_value(_)
digits_value(f) ==
    IF f = <<>> THEN 0
    ELSE 10 * digits_value(SubSeq(f, 1, Len(f) - 1))
             + (CHOOSE d \in 0..9 : Digits[d + 1] = f[Len(f)])

all_digits(f) == f # <<>> /\ \A i \in 1..Len(f) : f[i] \in Range(Digits)

\* 'HH:MM:SS': three fields of digits, minutes and seconds of two digits
\* below 60, hours of two digits or of more without a leading zero
zero_padded(t) ==
    /\ Len(split(t, ":")) = 3
    /\ \A i \in 1..3 : all_digits(split(t, ":")[i])
    /\ \A i \in 2..3 : /\ Len(split(t, ":")[i]) = 2
                        /\ digits_value(split(t, ":")[i]) < 60
    /\ \/ Len(split(t, ":")[1]) = 2
       \/ Len(split(t, ":")[1]) > 2 /\ split(t, ":")[1][1] # "0"

\* the seconds a zero-padded time string stands for
seconds_of(t) ==
    digits_value(split(t, ":")[1]) * 3600 + digits_value(split(t, ":")[2]) * 60
        + digits_value(split(t, ":")[3])

\* C19: parsing the string formatted from n >= 0 seconds gives n, with the
\* hours of the string n div 3600 also above 23; formatting the seconds
\* parsed from a zero-padded 'HH:MM:SS' string with minutes and seconds
\* below 60 gives the string; with mod24 the seconds are taken modulo
\* 24 * 3600 in either direction.
C19_TimeStringRoundTrip ==
    /\ (pc = "converted" /\ formats(call) /\ call.x.type = "int"
            /\ call.x.value >= 0) =>
        /\ returned.type = "str"
        /\ zero_padded(returned.value)
        /\ seconds_of(returned.value)
               = IF call.mod24 THEN call.x.value % (24 * 3600) ELSE call.x.value
        /\ ~call.mod24 =>
            digits_value(split(returned.value, ":")[1]) = call.x.value \div 3600
    /\ (pc = "converted" /\ ~formats(call) /\ call.x.type = "str"
            /\ zero_padded(call.x.value)) =>
        /\ returned.type = "int"
        /\ returned.value
               = IF call.mod24 THEN seconds_of(call.x.value) % (24 * 3600)
                 ELSE seconds_of(call.x.value)
    /\ (pc = "back" /\ formats(call) /\ call.x.type = "int"
            /\ call.x.value >= 0) =>
        /\ returned.type = "int"
        /\ returned.value
               = IF call.mod24 THEN call.x.value % (24 * 3600) ELSE call.x.value
    /\ (pc = "back" /\ ~formats(call) /\ call.x.type = "str"
            /\ zero_padded(call.x.value)) =>
        /\ returned.type = "str"
        /\ ~call.mod24 => returned.value = call.x.value
        /\ call.mod24 =>
            /\ zero_padded(returned.value)
            /\ seconds_of(returned.value)
                   = seconds_of(call.x.value) % (24 * 3600)

\* 90061 seconds formatted as 25:01:01 and parsed back, and 25:01:01 parsed
\* and formatted back
C19_Witness ==
    /\ pc = "back"
    /\ ~call.mod24
    /\ \/ /\ formats(call)
          /\ call.x.type = "int" /\ call.x.value = 90061
          /\ call.first.value = <<"2", "5", ":", "0", "1", ":", "0", "1">>
          /\ returned.type = "int" /\ returned.value = 90061
       \/ /\ ~formats(call)
          /\ call.x.type = "str"
          /\ call.x.value = <<"2", "5", ":", "0", "1", ":", "0", "1">>
          /\ call.first.value = 90061
          /\ returned.type = "str" /\ returned.value = call.x.value

\* an integer literal: digits, with an optional sign, and blanks around them
integer_literal(f) ==
    \E n \in 1..Len(f), m \in 1..Len(f) :
        /\ n <= m
        /\ \A i \in 1..(n - 1) : f[i] = " "
        /\ \A i \in (m + 1)..Len(f) : f[i] = " "
        /\ \/ all_digits(SubSeq(f, n, m))
           \/ f[n] \in {"+", "-"} /\ all_digits(SubSeq(f, n + 1, m))

\* a string of three integers separated by colons
three_integers(x) ==
    /\ x.type = "str"
    /\ Len(split(x.value, ":")) = 3
    /\ \A i \in 1..3 : integer_literal(split(x.value, ":")[i])

\* C20 as stated: parsing a value that is not a string of three integers
\* separated by colons returns None, and formatting a value that is not an
\* integer number of seconds returns None.
C20_MalformedGivesNone ==
    (pc = "converted") =>
        /\ (~formats(call) /\ ~three_integers(call.x)) => returned = None
        /\ (formats(call) /\ call.x.type # "int") => returned = None

\* the values int() raises on: None, a string that is no integer literal, a
\* float that is NaN or infinite
int_raises(x) ==
    \/ x.type = "None"
    \/ x.type = "str" /\ ~integer_literal(x.value)
    \/ x.type = "float" /\ x.value[2] = 0

\* C20 amended: parsing returns None exactly for the values that are not a
\* string of three integers separated by colons; formatting returns None
\* exactly for the values int() raises on, and a time string for the others,
\* a finite float and a string that holds an integer among them.
C20_NoneExactlyWhenIntRaises ==
    (pc = "converted") =>
        /\ ~formats(call) =>
            /\ returned = None <=> ~three_integers(call.x)
            /\ returned # None => returned.type = "int"
        /\ formats(call) =>
            /\ returned = None <=> int_raises(call.x)
            /\ returned # None =>
                /\ returned.type = "str"
                /\ Len(split(returned.value, ":")) = 3

\* the string 01:01:01 given to the formatter and the integer 3661 given to
\* the parser both return None
C20_Witness ==
    /\ pc = "converted"
    /\ returned = None
    /\ \/ /\ formats(call)
          /\ call.x.type = "str"
          /\ call.x.value = <<"0", "1", ":", "0", "1", ":", "0", "1">>
       \/ /\ ~formats(call)
          /\ call.x.type = "int"
          /\ call.x.value = 3661

\* the offset of a point to the left of the direction of travel of a path
left_of(linestring, point) ==
    IF X(linestring[1]) <= X(linestring[Len(linestring)])
    THEN Y(point) - Y(linestring[1])
    ELSE Y(linestring[1]) - Y(point)

\* the point lies abreast of the path
abreast(linestring, point) ==
    \/ /\ X(linestring[1]) <= X(point)
       /\ X(point) <= X(linestring[Len(linestring)])
    \/ /\ X(linestring[Len(linestring)]) <= X(point)
       /\ X(point) <= X(linestring[1])

\* the stops returned for a side, when that side has been asked for
nearby(side) ==
    {r.stops : r \in {q \in Range(returned) : q.side = side}}

\* C21: with a buffer above zero, get_stops_nearby returns for the side
\* 'left' the candidates strictly left of the path within the buffer and no
\* candidate strictly right of it, for 'right' the mirror image, and for
\* 'both' the candidates of either kind; every result is a subsequence of
\* the candidates, and the result for 'both' contains the results for
\* 'left' and for 'right'.
C21_StopsWithinBufferOnSide ==
    pc = "nearby" =>
        LET linestring == shapes[1].geometry
            in_left == {c \in Range(stops) :
                           /\ abreast(linestring, c.geometry)
                           /\ left_of(linestring, c.geometry) > 0
                           /\ left_of(linestring, c.geometry) <= buffer}
            in_right == {c \in Range(stops) :
                            /\ abreast(linestring, c.geometry)
                            /\ left_of(linestring, c.geometry) < 0
                            /\ -left_of(linestring, c.geometry) <= buffer}
            strictly_left == {c \in Range(stops) :
                                 left_of(linestring, c.geometry) > 0}
            strictly_right == {c \in Range(stops) :
                                  left_of(linestring, c.geometry) < 0}
        IN  /\ \A r \in Range(returned) : Range(r.stops) \subseteq Range(stops)
            /\ buffer > 0 =>
                /\ \A n \in nearby("left") :
                    /\ in_left \subseteq Range(n)
                    /\ Range(n) \cap strictly_right = {}
                /\ \A n \in nearby("right") :
                    /\ in_right \subseteq Range(n)
                    /\ Range(n) \cap strictly_left = {}
                /\ \A n \in nearby("both") :
                    in_left \cup in_right \subseteq Range(n)
            /\ \A both \in nearby("both") :
                \A n \in nearby("left") \cup nearby("right") :
                    Range(n) \subseteq Range(both)

\* C22: build_routes returns one row for every distinct route_short_name of
\* the frequencies table and no other row, so no two rows of the routes
\* table have the same route_id.
C22_OneRoutePerShortName ==
    pc \notin {"routes", "call", "returned", "cached_call", "convert",
               "converted", "back", "nearby"} =>
        /\ Len(routes)
               = Cardinality({f.route_short_name : f \in Range(frequencies)})
        /\ \A m, n \in 1..Len(routes) :
               routes[m].route_id = routes[n].route_id => m = n

\* C23: every shape built by build_shapes is '<shape>-1' with the points of
\* the input linestring in the order given, or '<shape>-0' with the points
\* in the reverse order, whether the shape is used in both directions or in
\* one.
C23_DirectionZeroIsReversed ==
    pc \in {"stops", "trips", "stop_times", "groups", "done", "KeyError",
            "ValueError", "AttributeError"} =>
        \A s \in Range(shapes) :
            \E p \in Range(pfeed_shapes) :
                \/ /\ s.shape_id = p.shape_id \o <<SEP, "1">>
                   /\ s.geometry = p.geometry
                \/ /\ s.shape_id = p.shape_id \o <<SEP, "0">>
                   /\ s.geometry = Reverse(p.geometry)

\* C24: the table returned by build_stop_times has the six columns trip_id,
\* stop_id, stop_sequence, arrival_time, departure_time and
\* shape_dist_traveled, also when it has no rows.
C24_SixColumns ==
    pc = "done" =>
        Range(stop_times.columns)
            = {"trip_id", "stop_id", "stop_sequence", "arrival_time",
               "departure_time", "shape_dist_traveled"}

\* the seven tables of a feed
seven_tables ==
    {"agency", "calendar", "routes", "stops", "shapes", "trips", "stop_times"}

\* C25: export called on a Feed that lacks one of the seven tables raises
\* AssertionError and writes no file; after create_all has returned, all
\* seven tables exist, no later call takes a table away, and export raises
\* no AssertionError.
C25_ExportAssertsAllTables ==
    [][pc = "legacy" =>
        /\ (call' = "create_all" /\ returned' = "") =>
               seven_tables \subseteq feed'.attributes
        /\ feed.attributes \subseteq feed'.attributes
        /\ call' = "export" =>
            /\ ~(seven_tables \subseteq feed.attributes) =>
                   (returned' = "AssertionError" /\ files' = files)
            /\ seven_tables \subseteq feed.attributes =>
                   returned' # "AssertionError"]_vars

\* export has raised AssertionError on a Feed with some of the tables, and
\* no file exists
C25_Witness ==
    /\ pc = "legacy"
    /\ call = "export"
    /\ returned = "AssertionError"
    /\ {"agency", "routes", "shapes"} \subseteq feed.attributes
    /\ files = {}

\* the merged samples of the call: the located stops and the points of the
\* speed profile of the shape, in the order of the sort by distance
merged_samples ==
    sort_values(
        f_of(call.stops_g_nearby, call.linestring, call.speed_zones,
             call.route_type, quicksort_ties)
            \o sps_of(call.shape_point_speeds, call.shape_id),
        by_dist, quicksort_ties)

\* the speed in meters per second at a sample, the default speed of the
\* route where the zone has none
sample_speed(sample) ==
    IF sample.speed = Inf THEN RMul(call.default_speed, Rat(1000, 3600))
    ELSE sample.speed

\* sum of segment length times speed at the start of the segment, over the
\* segments that start at the samples a..b-1
RECURSIVE mass_between(_, _, _)
mass_between(samples, a, b) ==
    IF a >= b THEN RInt(0)
    ELSE RAdd(RMul(RInt(samples[a + 1].shape_dist_traveled
                        - samples[a].shape_dist_traveled),
                   sample_speed(samples[a])),
              mass_between(samples, a + 1, b))

\* the positions of the stops among the samples
stop_positions(samples) ==
    SelectSeq([j \in 1..Len(samples) |-> j],
              LAMBDA j : samples[j].stop_id # NoStop)

\* the place on the path at a distance from its start
x_at(d) ==
    IF X(call.linestring[1]) <= X(call.linestring[Len(call.linestring)])
    THEN X(call.linestring[1]) + d
    ELSE X(call.linestring[1]) - d

\* the speeds that apply between two distances, in meters per second: the
\* speeds of the zones of the route type that the stretch touches, the
\* default speed where the zone has none
applicable_speeds(d1, d2) ==
    {piece_speed(z, call.default_speed) :
        z \in {q \in Range(zones_of_call) :
                  \/ (q.xlo <= x_at(d1) /\ x_at(d1) <= q.xhi)
                  \/ (q.xlo <= x_at(d2) /\ x_at(d2) <= q.xhi)
                  \/ (x_at(d1) <= q.xlo /\ q.xhi <= x_at(d2))
                  \/ (x_at(d2) <= q.xlo /\ q.xhi <= x_at(d1))}}

\* C26: between two consecutive rows of a trip at different distances the
\* duration is the distance divided by the average speed, the average speed
\* being the sum of segment length times speed at the start of the segment,
\* over the merged samples between the two stops, divided by the distance;
\* and the distance from the first to the last stop divided by the time
\* between them is at least the smallest and at most the largest speed
\* that applies (the speeds of the zones of the route type that the
\* stretch touches, the default speed where the zone has none).
C26_DistanceWeightedMeanSpeed ==
    (pc = "returned" /\ returned.error = "") =>
        LET rows == returned.rows
            at == stop_positions(merged_samples)
            dist == RInt(rows[Len(rows)].shape_dist_traveled
                         - rows[1].shape_dist_traveled)
            time == RSub(rows[Len(rows)].arrival_time, rows[1].arrival_time)
            speeds == applicable_speeds(rows[1].shape_dist_traveled,
                                        rows[Len(rows)].shape_dist_traveled)
        IN  /\ Len(rows) = Len(at)
            /\ \A n \in 1..(Len(rows) - 1) :
                rows[n + 1].shape_dist_traveled > rows[n].shape_dist_traveled =>
                    RSub(rows[n + 1].arrival_time, rows[n].arrival_time)
                        = RDiv(RInt(rows[n + 1].shape_dist_traveled
                                    - rows[n].shape_dist_traveled),
                               RDiv(mass_between(merged_samples, at[n], at[n + 1]),
                                    RInt(rows[n + 1].shape_dist_traveled
                                         - rows[n].shape_dist_traveled)))
            /\ (Len(rows) >= 2 /\ RLt(RInt(0), dist)) =>
                /\ RLt(RInt(0), time)
                /\ \E lo \in speeds : RLe(RMul(lo, time), dist)
                /\ \E hi \in speeds : RLe(dist, RMul(hi, time))

\* the path of 1000 meters, 10 kilometers per hour over the first half and
\* 50 over the second, stops at both ends: the second stop is reached after
\* 120 seconds, at 30 kilometers per hour on average
C26_Witness ==
    /\ pc = "returned"
    /\ returned.error = ""
    /\ {z.speed : z \in Range(zones_of_call)} = {RInt(10), RInt(50)}
    /\ call.start_time = RInt(0)
    /\ Len(returned.rows) = 2
    /\ returned.rows[1].shape_dist_traveled = 0
    /\ returned.rows[2].shape_dist_traveled = 1000
    /\ returned.rows[2].arrival_time = RInt(120)

\* the frequency rows a trip of a frame comes from: the rows of its route,
\* service window and shape that produce its direction, with a frequency
\* that gives its sequence index
own_rows(trip_frame) ==
    LET parts == split(trip_frame.trip_id, SEP)
    IN  {f \in Range(frequencies) :
            /\ <<"r">> \o f.route_short_name = parts[2]
            /\ f.service_window_id = parts[3]
            /\ int(parts[5]) \in produced_directions(f)
            /\ f.shape_id \o <<SEP>> \o parts[5] = trip_frame.call.shape_id
            /\ int(parts[6]) < floor_count(f)}

\* the start of the service window plus i headways of a frequency row
start_of(trip_frame, f) ==
    RAdd(RInt(timestr_to_seconds(window_of(f).start_time)),
         RMul(RInt(int(split(trip_frame.trip_id, SEP)[6])),
              Rat(3600, f.frequency)))

\* C27: every trip with stop times arrives at its first stop at the start
\* of its service window plus i headways, i its sequence index and the
\* headway 3600 / frequency seconds of a frequency row the trip comes from;
\* and the trips with the indices i and i + 1 of the same route, window
\* and direction are that headway apart at every stop.
C27_StartTimeFromOwnFrequency ==
    pc = "done" =>
        /\ \A n \in 1..Len(frames) :
            \E f \in own_rows(frames[n]) :
                frames[n].rows[1].arrival_time = start_of(frames[n], f)
        /\ \A m, n \in 1..Len(frames) :
            LET a == split(frames[m].trip_id, SEP)
                b == split(frames[n].trip_id, SEP)
            IN  (/\ a[2] = b[2] /\ a[3] = b[3] /\ a[5] = b[5]
                 /\ int(b[6]) = int(a[6]) + 1
                 /\ frames[m].call.shape_id = frames[n].call.shape_id) =>
                    /\ Len(frames[m].rows) = Len(frames[n].rows)
                    /\ \E f \in own_rows(frames[n]) :
                        \A j \in 1..Len(frames[n].rows) :
                            RSub(frames[n].rows[j].arrival_time,
                                 frames[m].rows[j].arrival_time)
                                = Rat(3600, f.frequency)

\* C28: the shape_id of every trip built by build_trips is the shape_id of
\* a row of the table built by build_shapes, whatever directions the
\* frequency rows use the shape in.
C28_TripShapeIsBuilt ==
    TripsBuilt =>
        \A n \in 1..Len(trips) :
            \E s \in Range(shapes) : s.shape_id = trips[n].shape_id

\* a shape used in direction 0 by one frequency row and in direction 1 by
\* another, with trips in both directions
C28_Witness ==
    /\ TripsBuilt
    /\ \E m, n \in 1..Len(frequencies) :
        /\ frequencies[m].shape_id = frequencies[n].shape_id
        /\ frequencies[m].direction = 0
        /\ frequencies[n].direction = 1
        /\ \E a, b \in 1..Len(trips) :
            /\ trips[a].shape_id = frequencies[m].shape_id \o <<SEP, "0">>
            /\ trips[b].shape_id = frequencies[m].shape_id \o <<SEP, "1">>

\* C29: in the table returned by build_stop_times no two rows have the same
\* trip_id and the same stop_sequence.
C29_OneRowPerTripAndSequence ==
    pc = "done" =>
        \A m, n \in 1..Len(stop_times.rows) :
            (/\ stop_times.rows[m].trip_id = stop_times.rows[n].trip_id
             /\ stop_times.rows[m].stop_sequence = stop_times.rows[n].stop_sequence)
                => m = n

\* the service window named in a trip ID
window_of_trip(trip_id) ==
    CHOOSE w \in Range(service_windows) :
        w.service_window_id = split(trip_id, SEP)[3]

\* C30: every trip with stop times starts inside its service window: the
\* arrival at its first stop is at or after the start_time of the window
\* and before its end_time.
C30_TripStartsInsideWindow ==
    pc = "done" =>
        \A n \in 1..Len(frames) :
            /\ RLe(RInt(timestr_to_seconds(
                        window_of_trip(frames[n].trip_id).start_time)),
                   frames[n].rows[1].arrival_time)
            /\ RLt(frames[n].rows[1].arrival_time,
                   RInt(timestr_to_seconds(
                        window_of_trip(frames[n].trip_id).end_time)))

====
